---- MODULE Spec2Model ----
(***************************************************************************)
(* Frame-processing pipeline of SMART_VEHICLE_ACCESS:                      *)
(*   capture loops (services/camera_manager.py)                            *)
(*     -> per-worker bounded input queues (services/worker_pool.py)        *)
(*     -> worker processes, per-camera tracker and reading history         *)
(*        (services/worker_pool.py, services/tracker_manager.py)           *)
(*     -> shared output queue -> result sink (services/result_processor.py)*)
(*                                                                         *)
(* The detection, tracking, OCR and annotation capabilities and the        *)
(* database are opaque to the pipeline: each call returns a value drawn    *)
(* from a small set or raises.  Confidences are floats in the code; the    *)
(* model keeps them as even integers so that the average of two of them    *)
(* is exact.  An OrderedDict is a sequence of entries in dictionary order. *)
(***************************************************************************)
EXTENDS Integers, Sequences, FiniteSets, TLC

\* ------------------------------------------------------------------ bounds
\* Capacity of one input queue (mp.Queue(maxsize=100) in the code, scaled).
maxsize == 2
\* settings.HISTORY_SIZE_THRESHOLD, the configured history bound.
HISTORY_SIZE_THRESHOLD == 2
\* settings.FRAME_SKIP
FRAME_SKIP == 2
\* Largest pool the module-level WorkerPool(...) is built with.
MaxWorkers == 2
\* Successful stream reads per camera, in the dispatch specification.
PoolReads == 4
\* Successful stream reads per camera, in the history specification.
HistReads == 4
\* Plates the detector reports in one frame.
MaxPlates == 2
\* Successful stream reads per camera, in the sink specification.
SinkReads == 6
\* Successful stream reads per camera, in the registry specification.
RegistryReads == 4
\* Latest reading of the wall clock.
MaxClock == 2
\* Successful stream reads per camera, in the batch specification.
BatchReads == 4
\* Successful stream reads per camera, in the eviction specification.
EvictReads == 8
\* Frames camera 3 submits in the scenario specification.
ScenarioFrames == 5
\* Successful stream reads per camera, in the live-frame cache specification.
CacheReads == 4
\* Successful stream reads per camera, in the capture specification.
CaptureReads == 6
\* Successful stream reads per camera, in the start-up and shutdown specification.
LifeReads == 4
\* Successful stream reads per camera, in the text specification.
OcrReads == 4
\* Successful stream reads per camera, in the streaming specification.
StreamReads == 6
\* Successful stream reads per camera, in the detection specification.
DetectReads == 8
\* Successful stream reads per camera, in the flow specification.
FlowReads == 6
\* Successful stream reads per camera, in the manager specification.
ManagerReads == 4
\* Successful stream reads per camera, in the touch specification.
TouchReads == 4
\* Largest history bound the reconciliation is checked for.
MaxThreshold == 3

Cameras == {1, 2, 3}
TrackIds == {1, 2, 3}
Workers == 0 .. (MaxWorkers - 1)

VARIABLES
    num_workers,    \* WorkerPool.num_workers
    input_queues,   \* WorkerPool.input_queues: worker -> sequence of tasks
    output_queue,   \* WorkerPool.output_queue: sequence of results
    worker,         \* model_worker's locals: worker ->
                    \*   [pc, task, license_plates, ocr_result, detections]
    trackers,       \* CameraTrackerManager._trackers of each worker: set of camera ids
    tracker_history,\* CameraTrackerManager._history of each worker: camera id -> OrderedDict
    error_log,      \* the tasks model_worker logged an error for (logger.error)
    camera_pool,    \* CameraManager.camera_pool: camera id -> [active]
    capture,        \* capture_frames' locals: camera id -> [pc, frame_count, submitted]
    clock,          \* the wall clock read by time.time()
    frames,         \* ResultProcessor._frames: camera id -> latest annotated frame
    history,        \* ResultProcessor.history: OrderedDict track id ->
                    \*   [text, confidence, record id]
    db,             \* the license_plate_detections table: row id -> row
    sink,           \* result_handler's locals: [pc, camera_id, timestamp, detections]
    shutdown,       \* WorkerPool.shutdown's position: [pc, worker]
    gen_frames,     \* gen_frames' locals: camera id -> [pc, chunk]
    manager         \* CameraManager.tasks, a list whose order nothing reads,
                    \*   as the set of the cameras of its tasks, and the
                    \*   position of CameraManager.shutdown: [tasks, pc]

pool_vars == <<num_workers, input_queues, output_queue, shutdown>>
worker_vars == <<worker, trackers, tracker_history, error_log>>
camera_vars == <<camera_pool, capture, clock, manager>>
sink_vars == <<frames, history, db, sink, gen_frames>>
vars == <<num_workers, input_queues, output_queue, worker, trackers,
          tracker_history, error_log, camera_pool, capture, clock,
          frames, history, db, sink, shutdown, gen_frames, manager>>

\* ------------------------------------------------------------ data shapes
NoTask == [camera_id |-> 0, frame |-> 0, timestamp |-> 0]

\* gen_frames has yielded nothing in its current iteration.
NoChunk == [boundary |-> "", content_type |-> "", body |-> 0]

\* What recognize_plate_text returns: a text with its confidence.
NoReading == [text |-> "", confidence |-> 0]
Readings ==
    {[text |-> "A", confidence |-> 2], [text |-> "B", confidence |-> 2],
     [text |-> "B", confidence |-> 4]}

RECURSIVE SeqsUpTo(_, _)
SeqsUpTo(S, n) ==
    IF n = 0 THEN {<<>>}
    ELSE LET shorter == SeqsUpTo(S, n - 1)
         IN  shorter \cup {Append(s, x) : s \in {t \in shorter : Len(t) = n - 1}, x \in S}

\* What detect_license_plates returns: tracked plates, each a track id with
\* the detector's confidence.  The tracker gives the boxes of one frame
\* distinct ids.
DistinctIds(ps) == \A i, j \in 1 .. Len(ps) : i # j => ps[i].id # ps[j].id
PlateLists(ids, confidences, n) ==
    {ps \in SeqsUpTo([id : ids, confidence : confidences], n) : DistinctIds(ps)}

\* --------------------------------------------------------- OrderedDict ops
Keys(h) == {h[i].id : i \in 1 .. Len(h)}
IndexOf(h, id) == CHOOSE i \in 1 .. Len(h) : h[i].id = id
Get(h, id) == h[IndexOf(h, id)]
Without(h, id) == SelectSeq(h, LAMBDA e : e.id # id)
\* d[id] = entry: in place when the key exists, appended otherwise
SetItem(h, e) ==
    IF e.id \in Keys(h) THEN [h EXCEPT ![IndexOf(h, e.id)] = e] ELSE Append(h, e)
\* d.popitem(last=True)
PopLast(h) == SubSeq(h, 1, Len(h) - 1)
\* d.popitem(last=False)
PopFirst(h) == Tail(h)
\* d.move_to_end(id); KeyError when the key is absent
MoveToEnd(h, id) == Append(Without(h, id), Get(h, id))


\* ------------------------------------------------------------------- Init
\* After construction: worker_pool = WorkerPool(2 if cuda else 1) with its
\* workers started and idle, no camera started, result_processor started
\* with an empty cache and history, no detection row stored.
Init ==
    /\ num_workers \in 1 .. MaxWorkers
    /\ input_queues = [w \in Workers |-> <<>>]
    /\ output_queue = <<>>
    /\ worker = [w \in Workers |->
                   [pc |-> "get", task |-> NoTask, license_plates |-> <<>>,
                    ocr_result |-> NoReading, detections |-> <<>>]]
    /\ trackers = [w \in Workers |-> {}]
    /\ tracker_history = [w \in Workers |-> <<>>]
    /\ error_log = {}
    /\ camera_pool = <<>>
    /\ capture = [c \in Cameras |->
                    [pc |-> "idle", frame_count |-> 0, submitted |-> "unset"]]
    /\ clock = 0
    /\ frames = <<>>
    /\ history = <<>>
    /\ db = <<>>
    /\ sink = [pc |-> "poll", camera_id |-> 0, timestamp |-> 0, detections |-> <<>>]
    /\ shutdown = [pc |-> "none", worker |-> 0]
    /\ gen_frames = [c \in Cameras |-> [pc |-> "idle", chunk |-> NoChunk]]
    /\ manager = [tasks |-> {}, pc |-> "none"]

\* ------------------------------------------------------------- WorkerPool
\* worker_id = camera_id % self.num_workers
WorkerOfMut(camera_id) == (camera_id + 1) % num_workers
WorkerOf(camera_id) == camera_id % num_workers

\* put_nowait succeeds while the queue holds fewer than maxsize items
QueueFullMut(q) == Len(q) > maxsize
QueueFull(q) == Len(q) >= maxsize

\* submit_frame with a full target queue spilling into the next worker's queue
SubmitQueuesSpill(camera_id, frame, timestamp) ==
    LET worker_id == WorkerOf(camera_id)
        other == (worker_id + 1) % num_workers
        task == [camera_id |-> camera_id, frame |-> frame, timestamp |-> timestamp]
    IN  IF QueueFull(input_queues[worker_id])
        THEN [input_queues EXCEPT ![other] = Append(@, task)]
        ELSE [input_queues EXCEPT ![worker_id] = Append(@, task)]

\* WorkerPool.submit_frame: the queues after the call
SubmitQueues(camera_id, frame, timestamp) ==
    LET worker_id == WorkerOf(camera_id)
        task == [camera_id |-> camera_id, frame |-> frame, timestamp |-> timestamp]
    IN  IF QueueFull(input_queues[worker_id])
        THEN input_queues
        ELSE [input_queues EXCEPT ![worker_id] = Append(@, task)]

\* WorkerPool.submit_frame: its return value
SubmitReturns(camera_id) == ~QueueFull(input_queues[WorkerOf(camera_id)])

\* WorkerPool.get_result with a result available, called by a consumer that
\* drops the result
GetResult ==
    /\ output_queue # <<>>
    /\ output_queue' = Tail(output_queue)
    /\ UNCHANGED <<num_workers, shutdown, input_queues, worker_vars, camera_vars, sink_vars>>

\* ---------------------------------------------------------- CameraManager
IsActive(c) == c \in DOMAIN camera_pool /\ camera_pool[c].active

\* start_camera: records the camera as active and schedules capture_frames,
\* which opens the stream and reaches its loop.  The caller never starts a
\* camera twice.
StartCamera(c) ==
    /\ capture[c].pc = "idle"
    /\ camera_pool' = (c :> [active |-> TRUE]) @@ camera_pool
    /\ capture' = [capture EXCEPT ![c].pc = "loop"]
    /\ manager' = [manager EXCEPT !.tasks = @ \cup {c}]
    /\ UNCHANGED <<pool_vars, worker_vars, clock, sink_vars>>

\* stop_camera: the flag is cleared; the capture loop is not touched.
StopCamera(c) ==
    /\ c \in DOMAIN camera_pool
    /\ camera_pool[c].active
    /\ camera_pool' = [camera_pool EXCEPT ![c].active = FALSE]
    /\ UNCHANGED <<pool_vars, worker_vars, capture, clock, manager, sink_vars>>

\* The loop condition of line 55, for a camera that was started, holding
\* whatever the flag says
LoopConditionStuck(c) == c \in DOMAIN camera_pool
\* self.camera_pool.get(camera_id, {}).get('active', False) (line 55)
LoopCondition(c) == c \in DOMAIN camera_pool /\ camera_pool[c].active

\* A failed read ends the loop.
OnReadFailureGivesUp == "stopped"
\* if not ret (lines 57-59): sleep 0.1 s, then `continue`
OnReadFailure == "backoff"

\* The counter advanced by failed reads too
CountedAlways(frame_count, ret) == frame_count + 1
\* frame_count += 1 (line 61), reached only by a successful read
Counted(frame_count, ret) == IF ret THEN frame_count + 1 ELSE frame_count

\* if frame_count % FRAME_SKIP != 0: continue (lines 62-63): the next
\* iteration starts at once, with no suspension
OnDecimated == "loop"

\* One iteration of capture_frames' loop, up to its next suspension or
\* `continue`.  ret is what cap.read() reports.  The frame read is named by
\* its number in the camera's stream.
CaptureIteration(c, ret) ==
    /\ capture[c].pc = "loop"
    /\ LoopCondition(c)
    /\ IF ~ret
       THEN /\ capture' = [capture EXCEPT
                              ![c].pc = OnReadFailure,
                              ![c].frame_count = Counted(@, ret)]
            /\ UNCHANGED input_queues
       ELSE LET frame_count == Counted(capture[c].frame_count, ret)
            IN  IF frame_count % FRAME_SKIP # 0
                THEN /\ capture' = [capture EXCEPT
                                       ![c].pc = OnDecimated,
                                       ![c].frame_count = frame_count]
                     /\ UNCHANGED input_queues
                ELSE /\ input_queues' = SubmitQueues(c, frame_count, clock)
                     /\ capture' = [capture EXCEPT
                          ![c] = [pc |-> "yield", frame_count |-> frame_count,
                                  submitted |-> IF SubmitReturns(c) THEN "True"
                                                ELSE "False"]]
    /\ UNCHANGED <<num_workers, shutdown, output_queue, worker_vars, camera_pool, clock, manager, sink_vars>>

\* The loop condition is found false (line 55): cap.release() (line 76) and
\* the coroutine returns.
CaptureExit(c) ==
    /\ capture[c].pc = "loop"
    /\ ~LoopCondition(c)
    /\ capture' = [capture EXCEPT ![c].pc = "stopped"]
    /\ UNCHANGED <<pool_vars, worker_vars, camera_pool, clock, manager, sink_vars>>

\* asyncio.sleep returns: back to the loop condition (submitted is dead until
\* it is assigned again)
CaptureWake(c) ==
    /\ capture[c].pc \in {"backoff", "yield"}
    /\ capture' = [capture EXCEPT ![c].pc = "loop", ![c].submitted = "unset"]
    /\ UNCHANGED <<pool_vars, worker_vars, camera_pool, clock, manager, sink_vars>>

\* Time passes: time.time() (line 67) reads a later value.
Tick ==
    /\ clock' = clock + 1
    /\ UNCHANGED <<pool_vars, worker_vars, camera_pool, capture, manager, sink_vars>>

\* A call of an iteration (cap.read, submit_frame) raises: the exception
\* leaves capture_frames, which has no handler, and ends the task.
CaptureRaise(c) ==
    /\ capture[c].pc = "loop"
    /\ LoopCondition(c)
    /\ capture' = [capture EXCEPT ![c].pc = "raised"]
    /\ UNCHANGED <<pool_vars, worker_vars, camera_pool, clock, manager, sink_vars>>

\* The capture task of camera c is done: it returned or ended with an
\* exception.
done(c) == capture[c].pc \in {"stopped", "raised"}

\* asyncio.gather(*tasks) without return_exceptions: the first exception of
\* a task ends the wait.
GatheredFirstException(tasks) ==
    \/ \E c \in tasks : capture[c].pc = "raised"
    \/ \A c \in tasks : done(c)
\* await asyncio.gather(*self.tasks, return_exceptions=True) (line 43)
\* returns: every task is done, exceptions being collected as results
Gathered(tasks) == \A c \in tasks : done(c)

\* CameraManager.shutdown, lines 36-43: every flag is cleared and, when there
\* are tasks, the coroutine waits for them; with no task it clears the empty
\* list and returns (lines 44-45).
ManagerShutdown ==
    /\ manager.pc = "none"
    /\ camera_pool' = [c \in DOMAIN camera_pool |-> [camera_pool[c] EXCEPT !.active = FALSE]]
    /\ manager' = IF manager.tasks # {} THEN [manager EXCEPT !.pc = "gather"]
                  ELSE [tasks |-> {}, pc |-> "returned"]
    /\ UNCHANGED <<pool_vars, worker_vars, capture, clock, sink_vars>>

\* Lines 43-45: gather returns, the task list is cleared, shutdown returns.
ManagerShutdownReturn ==
    /\ manager.pc = "gather"
    /\ Gathered(manager.tasks)
    /\ manager' = [tasks |-> {}, pc |-> "returned"]
    /\ UNCHANGED <<pool_vars, worker_vars, camera_pool, capture, clock, sink_vars>>

\* ----------------------------------------------------------- model_worker
Idle == [pc |-> "get", task |-> NoTask, license_plates |-> <<>>,
         ocr_result |-> NoReading, detections |-> <<>>]

\* input_queue.get (line 33): the oldest task, and the queue without it
DequeueMut(q) == [task |-> q[Len(q)], rest |-> SubSeq(q, 1, Len(q) - 1)]
Dequeue(q) == [task |-> Head(q), rest |-> Tail(q)]

\* except Exception (lines 98-99): the error is logged and the loop goes on
AfterErrorMut == [Idle EXCEPT !.pc = "dead"]
AfterError == Idle

\* if not prev_reading or prev_reading[1] <= ocr_confidence (line 59), for
\* an existing entry
StoreNewStrict(prev_confidence, ocr_confidence) == prev_confidence < ocr_confidence
StoreNewAlways(prev_confidence, ocr_confidence) == TRUE
StoreNew(prev_confidence, ocr_confidence) == prev_confidence <= ocr_confidence

\* len(history) > settings.HISTORY_SIZE_THRESHOLD (line 62)
OverThresholdMut(h) == Len(h) > HISTORY_SIZE_THRESHOLD + 1
OverThreshold(h) == Len(h) > HISTORY_SIZE_THRESHOLD

\* The reading put in the detection record when the stored one is kept
\* (lines 65-66)
KeptReadingMut(prev_reading, ocr_result) == ocr_result
KeptReading(prev_reading, ocr_result) == prev_reading.ocr

\* The entry is moved to the end only when the reading is stored.
ReconcileTouchOnWrite(h, id, ocr_result) ==
    LET ocr_confidence == ocr_result.confidence
        store == \/ id \notin Keys(h)
                 \/ StoreNew(Get(h, id).confidence, ocr_confidence)
        stored == SetItem(h, [id |-> id, ocr |-> ocr_result,
                              confidence |-> ocr_confidence])
        after == IF ~store THEN h
                 ELSE IF OverThreshold(stored) THEN PopFirst(stored) ELSE stored
        emitted == IF store THEN ocr_result ELSE KeptReading(Get(h, id), ocr_result)
        emitted_confidence == IF store THEN ocr_confidence ELSE Get(h, id).confidence
    IN  IF id \in Keys(after)
        THEN [history |-> IF store THEN MoveToEnd(after, id) ELSE after,
              ocr |-> emitted,
              ocr_confidence |-> emitted_confidence, raises |-> FALSE]
        ELSE [history |-> after, ocr |-> emitted,
              ocr_confidence |-> emitted_confidence, raises |-> TRUE]

\* History reconciliation of one plate (lines 58-68): the history after it,
\* the reading and confidence that go into the detection record, and whether
\* move_to_end raised KeyError.
Reconcile(h, id, ocr_result) ==
    LET ocr_confidence == ocr_result.confidence
        store == \/ id \notin Keys(h)
                 \/ StoreNew(Get(h, id).confidence, ocr_confidence)
        stored == SetItem(h, [id |-> id, ocr |-> ocr_result,
                              confidence |-> ocr_confidence])
        after == IF ~store THEN h
                 ELSE IF OverThreshold(stored) THEN PopFirst(stored) ELSE stored
        emitted == IF store THEN ocr_result ELSE KeptReading(Get(h, id), ocr_result)
        emitted_confidence == IF store THEN ocr_confidence ELSE Get(h, id).confidence
    IN  IF id \in Keys(after)
        THEN [history |-> MoveToEnd(after, id), ocr |-> emitted,
              ocr_confidence |-> emitted_confidence, raises |-> FALSE]
        ELSE [history |-> after, ocr |-> emitted,
              ocr_confidence |-> emitted_confidence, raises |-> TRUE]

\* Lines 58-68 again, for a history bound settings.HISTORY_SIZE_THRESHOLD of
\* threshold
ReconcileBounded(threshold, h, id, ocr_result) ==
    LET ocr_confidence == ocr_result.confidence
        store == \/ id \notin Keys(h)
                 \/ StoreNew(Get(h, id).confidence, ocr_confidence)
        stored == SetItem(h, [id |-> id, ocr |-> ocr_result,
                              confidence |-> ocr_confidence])
        after == IF ~store THEN h
                 ELSE IF Len(stored) > threshold THEN PopFirst(stored) ELSE stored
        emitted == IF store THEN ocr_result ELSE KeptReading(Get(h, id), ocr_result)
        emitted_confidence == IF store THEN ocr_confidence ELSE Get(h, id).confidence
    IN  IF id \in Keys(after)
        THEN [history |-> MoveToEnd(after, id), ocr |-> emitted,
              ocr_confidence |-> emitted_confidence, raises |-> FALSE]
        ELSE [history |-> after, ocr |-> emitted,
              ocr_confidence |-> emitted_confidence, raises |-> TRUE]

\* CameraTrackerManager.get_tracker: the camera's tracker, created on first use
GetTracker(w, camera_id) == trackers[w] \cup {camera_id}

\* CameraTrackerManager.get_history: the camera's OrderedDict, created empty
GetHistory(w, camera_id) ==
    IF camera_id \in DOMAIN tracker_history[w]
    THEN tracker_history[w]
    ELSE (camera_id :> <<>>) @@ tracker_history[w]

\* Lines 33-46: dequeue a task, fetch the camera's tracker and history,
\* detect.  The detector returns license_plates or raises.
WorkerGet(w, license_plates, raises) ==
    /\ w < num_workers
    /\ worker[w].pc = "get"
    /\ input_queues[w] # <<>>
    /\ LET task == Dequeue(input_queues[w]).task
       IN  /\ input_queues' = [input_queues EXCEPT ![w] = Dequeue(@).rest]
           /\ trackers' = [trackers EXCEPT ![w] = GetTracker(w, task.camera_id)]
           /\ tracker_history' =
                  [tracker_history EXCEPT ![w] = GetHistory(w, task.camera_id)]
           /\ worker' = [worker EXCEPT ![w] =
                  IF raises THEN AfterError
                  ELSE [pc |-> "plate", task |-> task,
                        license_plates |-> license_plates,
                        ocr_result |-> NoReading, detections |-> <<>>]]
           /\ error_log' = IF raises THEN error_log \cup {task} ELSE error_log
    /\ UNCHANGED <<num_workers, shutdown, output_queue, camera_vars, sink_vars>>

\* Lines 49-56: the next plate of license_plates is cropped and read.  The
\* OCR capability returns ocr_result, or the crop raises.
WorkerOcr(w, ocr_result, raises) ==
    /\ worker[w].pc = "plate"
    /\ worker[w].license_plates # <<>>
    /\ worker' = [worker EXCEPT ![w] =
           IF raises THEN AfterError
           ELSE [@ EXCEPT !.pc = "reconcile", !.ocr_result = ocr_result]]
    /\ error_log' = IF raises THEN error_log \cup {worker[w].task} ELSE error_log
    /\ UNCHANGED <<pool_vars, trackers, tracker_history, camera_vars, sink_vars>>

\* Lines 58-77: the reading is reconciled with the camera's history and the
\* detection record is appended; building the record may raise, after the
\* history has been updated.  ocr_result is dead after the iteration.
WorkerReconcile(w, raises) ==
    /\ worker[w].pc = "reconcile"
    /\ LET plate == Head(worker[w].license_plates)
           camera_id == worker[w].task.camera_id
           r == Reconcile(tracker_history[w][camera_id], plate.id,
                          worker[w].ocr_result)
           detection == [id |-> plate.id, ocr |-> r.ocr,
                         overall_confidence |->
                             (plate.confidence + r.ocr_confidence) \div 2]
           failed == raises \/ r.raises
       IN  /\ tracker_history' = [tracker_history EXCEPT ![w][camera_id] = r.history]
           /\ worker' = [worker EXCEPT ![w] =
                  IF failed THEN AfterError
                  ELSE [@ EXCEPT !.pc = "plate", !.ocr_result = NoReading,
                                 !.license_plates = Tail(@),
                                 !.detections = Append(@, detection)]]
           /\ error_log' = IF failed THEN error_log \cup {worker[w].task}
                           ELSE error_log
    /\ UNCHANGED <<pool_vars, trackers, camera_vars, sink_vars>>

\* Lines 79-91: annotate, encode and put the result; nothing is put when
\* annotation or encoding raises.
\* A result is put only when it has detections.
PutOnlyDetections(q, result) ==
    IF result.detections = <<>> THEN q ELSE Append(q, result)

\* output_queue.put (lines 85-91): whatever the detection list holds
Put(q, result) == Append(q, result)

WorkerEmit(w, raises) ==
    /\ worker[w].pc = "plate"
    /\ worker[w].license_plates = <<>>
    /\ output_queue' =
           IF raises THEN output_queue
           ELSE Put(output_queue,
                    [camera_id |-> worker[w].task.camera_id,
                     annotated_frame |-> worker[w].task.frame,
                     timestamp |-> worker[w].task.timestamp,
                     detections |-> worker[w].detections,
                     worker_id |-> w])
    /\ worker' = [worker EXCEPT ![w] = IF raises THEN AfterError ELSE Idle]
    /\ error_log' = IF raises THEN error_log \cup {worker[w].task} ELSE error_log
    /\ UNCHANGED <<num_workers, shutdown, input_queues, trackers, tracker_history, camera_vars, sink_vars>>

\* -------------------------------------------------------- ResultProcessor
Polling == [pc |-> "poll", camera_id |-> 0, timestamp |-> 0, detections |-> <<>>]

\* What the registry lookup (select ... ilike, scalar_one_or_none) returns:
\* no row, or a registry plate with its flags.
NoPlate == [id |-> 0, is_authorized |-> FALSE, is_blacklisted |-> FALSE]
RegistryPlates ==
    {[id |-> 1, is_authorized |-> TRUE, is_blacklisted |-> FALSE],
     [id |-> 2, is_authorized |-> FALSE, is_blacklisted |-> TRUE]}

\* PlateStatus.from_flags(is_authorized, is_blacklisted)
from_flags(is_authorized, is_blacklisted) ==
    IF is_blacklisted THEN "denied"
    ELSE IF is_authorized THEN "authorized" ELSE "unknown"

\* Where a storage call of one reconciliation raises: a select (execute),
\* the commit, or the refresh of the row just committed.
Faults == {"none", "execute", "commit", "refresh"}

\* The history trimmed by dropping the entry of the oldest row first
RECURSIVE EvictedOldestInserted(_)
EvictedOldestInserted(h) ==
    IF Len(h) > HISTORY_SIZE_THRESHOLD
    THEN LET oldest == CHOOSE e \in {h[i] : i \in 1 .. Len(h)} :
                           \A i \in 1 .. Len(h) : e.record <= h[i].record
         IN  EvictedOldestInserted(Without(h, oldest.id))
    ELSE h

\* while len(self.history) > settings.HISTORY_SIZE_THRESHOLD: popitem (29-30)
RECURSIVE Evicted(_)
Evicted(h) == IF Len(h) > HISTORY_SIZE_THRESHOLD THEN Evicted(PopFirst(h)) ELSE h

\* prev[0] != plate_text (line 50)
TextChangedMut(prev, plate_text) == TRUE
TextChanged(prev, plate_text) == prev.text # plate_text

\* Lines 84-93: the row built for a new sighting
LicensePlateDetectionNow(detected_plate_text, overall_confidence, status, detected_at, camera_id, plate_id) ==
    [detected_plate_text |-> detected_plate_text,
     overall_confidence |-> overall_confidence,
     status |-> status,
     detected_at |-> clock,
     camera_id |-> camera_id,
     plate_id |-> plate_id]
LicensePlateDetection(detected_plate_text, overall_confidence, status, detected_at, camera_id, plate_id) ==
    [detected_plate_text |-> detected_plate_text,
     overall_confidence |-> overall_confidence,
     status |-> status,
     detected_at |-> detected_at,
     camera_id |-> camera_id,
     plate_id |-> plate_id]

\* Lines 60-64: the attributes set on the row selected by prev[2]
UpdatedRowKeepsText(row, plate, plate_text, confidence) ==
    [row EXCEPT !.overall_confidence = confidence]
UpdatedRow(row, plate, plate_text, confidence) ==
    [row EXCEPT
       !.status = IF plate # NoPlate
                  THEN from_flags(plate.is_authorized, plate.is_blacklisted)
                  ELSE @,
       !.detected_plate_text = plate_text,
       !.overall_confidence = confidence]

\* Lines 26-33: get_result returns nothing; the idle time trims the history.
SinkIdle ==
    /\ sink.pc = "poll"
    /\ output_queue = <<>>
    /\ history' = Evicted(history)
    /\ UNCHANGED <<pool_vars, worker_vars, camera_vars, frames, db, sink, gen_frames>>

\* The frame is cached only for a result that has detections.
CacheOnDetections(result) ==
    IF result.detections = <<>> THEN frames
    ELSE (result.camera_id :> result.annotated_frame) @@ frames

\* Line 36: self._frames[camera_id] = result['annotated_frame']
Cache(result) == (result.camera_id :> result.annotated_frame) @@ frames

\* The result is read and left on the output queue.
SinkGetPeek ==
    /\ sink.pc = "poll"
    /\ output_queue # <<>>
    /\ LET result == Head(output_queue)
       IN  /\ frames' = (result.camera_id :> result.annotated_frame) @@ frames
           /\ sink' = IF result.detections = <<>> THEN Polling
                      ELSE [pc |-> "detection", camera_id |-> result.camera_id,
                            timestamp |-> result.timestamp,
                            detections |-> result.detections]
    /\ UNCHANGED <<pool_vars, worker_vars, camera_vars, history, db, gen_frames>>

\* Lines 26, 35-38: get_result returns a result; its frame goes to the
\* live-frame cache and its detections are taken up one by one.
SinkGet ==
    /\ sink.pc = "poll"
    /\ output_queue # <<>>
    /\ LET result == Head(output_queue)
       IN  /\ output_queue' = Tail(output_queue)
           /\ frames' = Cache(result)
           /\ sink' = IF result.detections = <<>> THEN Polling
                      ELSE [pc |-> "detection", camera_id |-> result.camera_id,
                            timestamp |-> result.timestamp,
                            detections |-> result.detections]
    /\ UNCHANGED <<num_workers, shutdown, input_queues, worker_vars, camera_vars, history, db, gen_frames>>

\* The locals of result_handler once the detection at hand is done.
NextDetection ==
    IF Len(sink.detections) = 1 THEN Polling
    ELSE [sink EXCEPT !.detections = Tail(@)]

\* if not plate_text (line 43)
NoTextNever(plate_text) == FALSE
NoText(plate_text) == plate_text = ""

\* except Exception (lines 101-102), inside the for loop: the error is
\* logged and the loop goes on with the next detection
AfterStorageErrorDrops == Polling
AfterStorageError == NextDetection

\* Lines 39-102: one detection of the result is reconciled with the history
\* and the table.  plate is what the registry lookup returns when it is
\* made; fault is where a storage call raises, if the path taken makes it.
SinkDetection(plate, fault) ==
    /\ sink.pc = "detection"
    /\ LET detection == Head(sink.detections)
           plate_text == detection.ocr.text
           detection_id == detection.id
           confidence == detection.overall_confidence
           known == detection_id \in Keys(history)
           prev == Get(history, detection_id)
           updated == [prev EXCEPT !.text = plate_text, !.confidence = confidence]
           status == IF plate # NoPlate
                     THEN from_flags(plate.is_authorized, plate.is_blacklisted)
                     ELSE "unknown"
           new_detection ==
               LicensePlateDetection(plate_text, confidence, status,
                                     sink.timestamp, sink.camera_id, plate.id)
       IN  IF NoText(plate_text)
           THEN \* line 43
                /\ plate = NoPlate /\ fault = "none"
                /\ UNCHANGED <<history, db>>
           ELSE IF known /\ TextChanged(prev, plate_text)
           THEN \* lines 50-71
                /\ fault # "refresh"
                /\ fault = "execute" => plate = NoPlate
                /\ history' =
                       IF fault = "execute" THEN history
                       ELSE IF fault = "commit" THEN SetItem(history, updated)
                       ELSE MoveToEnd(SetItem(history, updated), detection_id)
                /\ db' =
                       IF fault # "none" THEN db
                       ELSE [db EXCEPT ![prev.record] =
                               UpdatedRow(@, plate, plate_text, confidence)]
           ELSE IF known
           THEN \* lines 73-75
                /\ plate = NoPlate /\ fault = "none"
                /\ history' = MoveToEnd(history, detection_id)
                /\ UNCHANGED db
           ELSE \* lines 77-100
                /\ fault = "execute" => plate = NoPlate
                /\ db' = IF fault \in {"execute", "commit"} THEN db
                         ELSE Append(db, new_detection)
                /\ history' =
                       IF fault # "none" THEN history
                       ELSE Append(history,
                                   [id |-> detection_id, text |-> plate_text,
                                    confidence |-> confidence,
                                    record |-> Len(db) + 1])
    /\ sink' = IF fault = "none" THEN NextDetection ELSE AfterStorageError
    /\ UNCHANGED <<pool_vars, worker_vars, camera_vars, frames, gen_frames>>

\* ---------------------------------------------------- recognize_plate_text
\* A text is the sequence of its characters.  Confidences are in units of
\* 0.025 here: settings.OCR_CONFIDENCE_THRESHOLD = 0.45.
OCR_CONFIDENCE_THRESHOLD == 18

Digit == {"0", "1", "2", "3", "4", "5", "6", "7", "8", "9"}
Letter == {"A", "B", "C", "G", "I", "J", "O", "S", "X", "i", "o", "x"}

\* str.upper, character by character
upper(c) ==
    CASE c = "i" -> "I"
      [] c = "o" -> "O"
      [] c = "x" -> "X"
      [] OTHER -> c

\* str.strip
strip(text) ==
    LET kept == {i \in 1 .. Len(text) : text[i] # " "}
    IN  IF kept = {} THEN <<>>
        ELSE SubSeq(text, CHOOSE i \in kept : \A j \in kept : i <= j,
                          CHOOSE i \in kept : \A j \in kept : j <= i)

\* The corrections table (lines 325-335); no replacement yields a key of the
\* table, so the replacements of lines 338-339 act on each character once.
corrections(c) ==
    CASE c = "O" -> "0"
      [] c = "I" -> "1"
      [] c = "S" -> "5"
      [] c = "B" -> "8"
      [] c = "G" -> "6"
      [] c = "|" -> "1"
      [] c = "]" -> "1"
      [] c = "J" -> "3"
      [] c = "A" -> "4"
      [] OTHER -> c

\* str.isalnum, character by character
isalnum(c) == c \in Digit \cup Letter

\* _clean_plate_text (lines 310-348)
clean_plate_text(text) ==
    LET cleaned == [i \in 1 .. Len(strip(text)) |-> corrections(upper(strip(text)[i]))]
    IN  SelectSeq(cleaned, isalnum)

\* The pattern taken as ten to twelve digits
validate_plate_text_12(text) ==
    /\ Len(text) \in 10 .. 12
    /\ \A i \in 1 .. Len(text) : text[i] \in Digit
\* _validate_plate_text (lines 238-240): ^\d{10,11}$
validate_plate_text(text) ==
    /\ Len(text) \in 10 .. 11
    /\ \A i \in 1 .. Len(text) : text[i] \in Digit

\* What the two OCR engines read in a plate image: EasyOCR's best result, or
\* none, and Tesseract's string.
NoRead == [text |-> <<>>, confidence |-> 0]

\* recognize_plate_text (lines 242-308), the engines' readings given
recognize_plate_text(roi) ==
    LET text == roi.easyocr.text
        confidence == roi.easyocr.confidence
        cleaned_text == clean_plate_text(text)
        tesseract_text == strip(roi.tesseract)
    IN  IF /\ roi.easyocr # NoRead
           /\ confidence >= OCR_CONFIDENCE_THRESHOLD
           /\ validate_plate_text(cleaned_text)
        THEN [text |-> cleaned_text, confidence |-> confidence,
              method |-> "easyocr", raw_text |-> text]
        ELSE IF tesseract_text # <<>> /\ validate_plate_text(tesseract_text)
        THEN [text |-> clean_plate_text(tesseract_text),
              confidence |-> OCR_CONFIDENCE_THRESHOLD - 4,
              method |-> "tesseract", raw_text |-> tesseract_text]
        ELSE [text |-> <<>>, confidence |-> 0, method |-> "none", raw_text |-> <<>>]

\* --------------------------------------------------- detect_license_plates
\* A raw detection is [x1, y1, x2, y2, confidence], a tracked plate is
\* [x1, y1, x2, y2, id]; coordinates are pixels.
Max(a, b) == IF a >= b THEN a ELSE b
Min(a, b) == IF a <= b THEN a ELSE b

\* Lines 138-139 (and 141-142): the area shared by a tracked plate and a raw
\* detection
Intersection(t, d) ==
    Max(0, Min(t.x2, d.x2) - Max(t.x1, d.x1))
        * Max(0, Min(t.y2, d.y2) - Max(t.y1, d.y1))

\* Lines 138-142: intersection / (union + 1e-6), kept as the pair of the
\* intersection and the union
Iou(t, d) ==
    [inter |-> Intersection(t, d),
     union |-> (t.x2 - t.x1) * (t.y2 - t.y1) + (d.x2 - d.x1) * (d.y2 - d.y1)
                   - Intersection(t, d)]

\* p.inter / (p.union + 1e-6) > q.inter / (q.union + 1e-6): the sign of
\* p.inter * q.union - q.inter * p.union + 1e-6 * (p.inter - q.inter), whose
\* last term is below 1 in absolute value
Greater(p, q) ==
    \/ p.inter * q.union > q.inter * p.union
    \/ /\ p.inter * q.union = q.inter * p.union
       /\ p.inter > q.inter

\* np.argmax(ious): the first index of a maximum
argmax(ious) ==
    CHOOSE i \in 1 .. Len(ious) :
        /\ \A j \in 1 .. Len(ious) : ~Greater(ious[j], ious[i])
        /\ \A j \in 1 .. (i - 1) : Greater(ious[i], ious[j])

\* detect_license_plates (lines 104-159), given the boxes license_plates of
\* the detection model and what self.tracker.update returns for them; the
\* tracker is updated only when the frame has a raw detection.
detect_license_plates(license_plates, tracked_plates) ==
    IF Len(license_plates) > 0
    THEN [k \in 1 .. Len(tracked_plates) |->
              LET t == tracked_plates[k]
                  ious == [i \in 1 .. Len(license_plates) |-> Iou(t, license_plates[i])]
              IN  [id |-> t.id,
                   bbox |-> [x1 |-> t.x1, y1 |-> t.y1, x2 |-> t.x2, y2 |-> t.y2],
                   confidence |->
                       IF Len(ious) > 0 THEN license_plates[argmax(ious)].confidence
                       ELSE 0,
                   width |-> t.x2 - t.x1,
                   height |-> t.y2 - t.y1]]
    ELSE <<>>

\* -------------------------------------------------------------- gen_frames
\* Lines 109-110: the multipart chunk that wraps a frame
Chunk(frame) == [boundary |-> "--frame", content_type |-> "image/jpeg", body |-> frame]

\* The first frame the generator has seen is yielded again and again.
YieldedFirstSeen(c) ==
    IF gen_frames[c].chunk # NoChunk THEN gen_frames[c].chunk
    ELSE IF c \in DOMAIN frames THEN Chunk(frames[c]) ELSE NoChunk
\* frame = self._frames.get(camera_id); if frame is not None: yield ...
\* (lines 108-110)
Yielded(c) == IF c \in DOMAIN frames THEN Chunk(frames[c]) ELSE NoChunk

\* gen_frames(camera_id) is called and its generator is iterated.
GenStart(c) ==
    /\ gen_frames[c].pc = "idle"
    /\ gen_frames' = [gen_frames EXCEPT ![c].pc = "read"]
    /\ UNCHANGED <<pool_vars, worker_vars, camera_vars, frames, history, db, sink>>

\* Lines 108-112: the cache is read, the chunk is yielded if there is a
\* frame, and the generator sleeps.  chunk is what this iteration yielded.
GenRead(c) ==
    /\ gen_frames[c].pc = "read"
    /\ gen_frames' = [gen_frames EXCEPT ![c] = [pc |-> "sleep", chunk |-> Yielded(c)]]
    /\ UNCHANGED <<pool_vars, worker_vars, camera_vars, frames, history, db, sink>>

\* asyncio.sleep(0.1) returns (line 112).
GenWake(c) ==
    /\ gen_frames[c].pc = "sleep"
    /\ gen_frames' = [gen_frames EXCEPT ![c].pc = "read"]
    /\ UNCHANGED <<pool_vars, worker_vars, camera_vars, frames, history, db, sink>>

\* ------------------------------------------------- start-up and shutdown
\* WorkerPool.start (lines 113-123) has started the processes; each is about
\* to construct its LicensePlateProcessor (line 26).
InitStartup ==
    /\ num_workers \in 1 .. MaxWorkers
    /\ input_queues = [w \in Workers |-> <<>>]
    /\ output_queue = <<>>
    /\ worker = [w \in Workers |-> [Idle EXCEPT !.pc = "load"]]
    /\ trackers = [w \in Workers |-> {}]
    /\ tracker_history = [w \in Workers |-> <<>>]
    /\ error_log = {}
    /\ camera_pool = <<>>
    /\ capture = [c \in Cameras |->
                    [pc |-> "idle", frame_count |-> 0, submitted |-> "unset"]]
    /\ clock = 0
    /\ frames = <<>>
    /\ history = <<>>
    /\ db = <<>>
    /\ sink = [pc |-> "poll", camera_id |-> 0, timestamp |-> 0, detections |-> <<>>]
    /\ shutdown = [pc |-> "none", worker |-> 0]
    /\ gen_frames = [c \in Cameras |-> [pc |-> "idle", chunk |-> NoChunk]]
    /\ manager = [tasks |-> {}, pc |-> "none"]

\* What _load_models logs when a model fails to load (line 67).
LoadError(w) == [worker_id |-> w, error |-> "Error loading models"]

\* The worker goes on to its loop without its models.
OnLoadFailureRunsOn == "get"
\* _load_models re-raises (image_processing.py:66-68); nothing in
\* model_worker catches it before the loop, so the process ends.
OnLoadFailure == "exited"

\* model_worker lines 23-29: the processor is constructed, loading the
\* detection model and the OCR reader, or the load raises.
WorkerLoad(w, raises) ==
    /\ w < num_workers
    /\ worker[w].pc = "load"
    /\ worker' = [worker EXCEPT ![w].pc = IF raises THEN OnLoadFailure ELSE "get"]
    /\ error_log' = IF raises THEN error_log \cup {LoadError(w)} ELSE error_log
    /\ UNCHANGED <<pool_vars, trackers, tracker_history, camera_vars, sink_vars>>

\* Process.is_alive()
is_alive(w) == worker[w].pc \notin {"exited", "terminated"}

\* WorkerPool.shutdown is called (line 146).
ShutdownBegin ==
    /\ shutdown.pc = "none"
    /\ shutdown' = [pc |-> "join", worker |-> 0]
    /\ UNCHANGED <<num_workers, input_queues, output_queue, worker_vars,
                   camera_vars, sink_vars>>

\* Lines 148-151, one worker of the list: join(timeout=5) returns, because
\* the process has ended or because the time is up, and a process still
\* alive is terminated.  Nothing was sent to the worker before.
ShutdownJoin ==
    /\ shutdown.pc = "join"
    /\ shutdown.worker < num_workers
    /\ worker' = IF is_alive(shutdown.worker)
                 THEN [worker EXCEPT ![shutdown.worker].pc = "terminated"]
                 ELSE worker
    /\ shutdown' = [shutdown EXCEPT !.worker = @ + 1]
    /\ UNCHANGED <<num_workers, input_queues, output_queue, trackers,
                   tracker_history, error_log, camera_vars, sink_vars>>

\* Lines 153-155: the queues are closed.
ShutdownClose ==
    /\ shutdown.pc = "join"
    /\ shutdown.worker = num_workers
    /\ shutdown' = [shutdown EXCEPT !.pc = "closed"]
    /\ UNCHANGED <<num_workers, input_queues, output_queue, worker_vars,
                   camera_vars, sink_vars>>

\* ---------------------------------------------------------- specifications
\* Dispatch: three cameras over one or two workers; the frames show no plate
\* and the capabilities do not raise.
NextPool ==
    \/ \E c \in Cameras : StartCamera(c)
    \/ \E c \in Cameras :
           /\ capture[c].frame_count < PoolReads
           /\ CaptureIteration(c, TRUE)
    \/ \E c \in Cameras : CaptureWake(c)
    \/ \E w \in Workers : WorkerGet(w, <<>>, FALSE)
    \/ \E w \in Workers : WorkerEmit(w, FALSE)
    \/ GetResult

SpecPool == Init /\ [][NextPool]_vars

\* History: camera 3 alone, frames with up to MaxPlates tracked plates, every
\* reading of Readings, every step of a task may raise.
NextHist ==
    \/ StartCamera(3)
    \/ /\ capture[3].frame_count < HistReads
       /\ CaptureIteration(3, TRUE)
    \/ CaptureWake(3)
    \/ \E w \in Workers, ps \in PlateLists(TrackIds, {2}, MaxPlates),
          raises \in BOOLEAN : WorkerGet(w, ps, raises)
    \/ \E w \in Workers, ocr_result \in Readings, raises \in BOOLEAN :
           WorkerOcr(w, ocr_result, raises)
    \/ \E w \in Workers, raises \in BOOLEAN : WorkerReconcile(w, raises)
    \/ \E w \in Workers, raises \in BOOLEAN : WorkerEmit(w, raises)
    \/ GetResult

SpecHist == Init /\ [][NextHist]_vars

\* Sink: camera 3 alone on a one-worker pool, frames showing at most one
\* tracked plate, found at either detector confidence and read as "A", as "B"
\* or not at all; the workers' capabilities do not raise, the sink's storage
\* calls may, and the registry lookup finds no plate or an authorized one.
SinkPlateLists == {<<>>} \cup {<<p>> : p \in [id : TrackIds, confidence : {2, 4}]}
SinkReadings ==
    {NoReading, [text |-> "A", confidence |-> 2], [text |-> "B", confidence |-> 2]}
SinkLookups == {NoPlate} \cup {p \in RegistryPlates : ~p.is_blacklisted}

NextSink ==
    \/ /\ num_workers = 1
       /\ StartCamera(3)
    \/ /\ capture[3].frame_count < SinkReads
       /\ CaptureIteration(3, TRUE)
    \/ CaptureWake(3)
    \/ \E w \in Workers, ps \in SinkPlateLists : WorkerGet(w, ps, FALSE)
    \/ \E w \in Workers, ocr_result \in SinkReadings : WorkerOcr(w, ocr_result, FALSE)
    \/ \E w \in Workers : WorkerReconcile(w, FALSE)
    \/ \E w \in Workers : WorkerEmit(w, FALSE)
    \/ SinkIdle
    \/ SinkGet
    \/ \E plate \in SinkLookups, fault \in Faults : SinkDetection(plate, fault)

SpecSink == Init /\ [][NextSink]_vars

\* Registry: as the sink specification over two frames, with time passing
\* and the registry lookup computed from a registry table that holds one authorized plate whose
\* text contains "A".  A plate text is the sequence of its pieces; a
\* recognized text is one piece.
Registry ==
    {[id |-> 1, plate_text |-> <<"A", "C">>, is_authorized |-> TRUE,
      is_blacklisted |-> FALSE]}

\* LicensePlate.plate_text.ilike(f"%{plate_text}%")
Contains(registry_text, plate_text) ==
    \E i \in 1 .. Len(registry_text) : registry_text[i] = plate_text

\* scalar_one_or_none over the matching rows (no text matches two rows of
\* Registry)
Found(plate_text) ==
    LET rows == {p \in Registry : Contains(p.plate_text, plate_text)}
    IN  IF rows = {} THEN NoPlate
        ELSE LET p == CHOOSE r \in rows : TRUE
             IN  [id |-> p.id, is_authorized |-> p.is_authorized,
                  is_blacklisted |-> p.is_blacklisted]

\* The detection at hand reaches a registry lookup (line 56 or line 77)
LookupMade ==
    LET detection == Head(sink.detections)
    IN  /\ detection.ocr.text # ""
        /\ detection.id \in Keys(history) =>
               TextChanged(Get(history, detection.id), detection.ocr.text)

NextRegistry ==
    \/ /\ num_workers = 1
       /\ StartCamera(3)
    \/ /\ capture[3].frame_count < RegistryReads
       /\ CaptureIteration(3, TRUE)
    \/ CaptureWake(3)
    \/ \E w \in Workers, ps \in SinkPlateLists : WorkerGet(w, ps, FALSE)
    \/ \E w \in Workers, ocr_result \in SinkReadings : WorkerOcr(w, ocr_result, FALSE)
    \/ \E w \in Workers : WorkerReconcile(w, FALSE)
    \/ \E w \in Workers : WorkerEmit(w, FALSE)
    \/ /\ clock < MaxClock
       /\ Tick
    \/ SinkIdle
    \/ SinkGet
    \/ \E fault \in Faults :
           /\ sink.pc = "detection"
           /\ SinkDetection(IF LookupMade /\ fault # "execute"
                            THEN Found(Head(sink.detections).ocr.text)
                            ELSE NoPlate,
                            fault)

SpecRegistry == Init /\ [][NextRegistry]_vars

\* Batch: camera 3 alone on a one-worker pool, two frames showing up to
\* MaxPlates of the tracks 1 and 2, read as "A", as "B" or not at all; the
\* sink's storage calls may raise.
NextBatch ==
    \/ /\ num_workers = 1
       /\ StartCamera(3)
    \/ /\ capture[3].frame_count < BatchReads
       /\ CaptureIteration(3, TRUE)
    \/ CaptureWake(3)
    \/ \E w \in Workers, ps \in PlateLists({1, 2}, {2}, MaxPlates) :
           WorkerGet(w, ps, FALSE)
    \/ \E w \in Workers, ocr_result \in SinkReadings : WorkerOcr(w, ocr_result, FALSE)
    \/ \E w \in Workers : WorkerReconcile(w, FALSE)
    \/ \E w \in Workers : WorkerEmit(w, FALSE)
    \/ SinkIdle
    \/ SinkGet
    \/ \E plate \in SinkLookups, fault \in Faults : SinkDetection(plate, fault)

SpecBatch == Init /\ [][NextBatch]_vars

\* Eviction: camera 3 alone on a one-worker pool, frames showing at most one
\* of the tracks, always read as "A"; no capability and no storage call
\* raises and the registry lookup finds nothing.
EvictPlateLists == {<<>>} \cup {<<p>> : p \in [id : TrackIds, confidence : {2}]}

NextEvict ==
    \/ /\ num_workers = 1
       /\ StartCamera(3)
    \/ /\ capture[3].frame_count < EvictReads
       /\ CaptureIteration(3, TRUE)
    \/ CaptureWake(3)
    \/ \E w \in Workers, ps \in EvictPlateLists : WorkerGet(w, ps, FALSE)
    \/ \E w \in Workers : WorkerOcr(w, [text |-> "A", confidence |-> 2], FALSE)
    \/ \E w \in Workers : WorkerReconcile(w, FALSE)
    \/ \E w \in Workers : WorkerEmit(w, FALSE)
    \/ SinkIdle
    \/ SinkGet
    \/ SinkDetection(NoPlate, "none")

SpecEvict == Init /\ [][NextEvict]_vars

\* Scenario: camera 3 alone on a pool of two workers, ScenarioFrames frames
\* submitted while time passes; the frames show no plate, a task may fail in
\* detection or in annotation, the sink drains the output queue.
NextScenario ==
    \/ /\ num_workers = 2
       /\ StartCamera(3)
    \/ /\ capture[3].frame_count < ScenarioFrames * FRAME_SKIP
       /\ CaptureIteration(3, TRUE)
    \/ CaptureWake(3)
    \/ /\ clock < MaxClock
       /\ Tick
    \/ \E w \in Workers, raises \in BOOLEAN : WorkerGet(w, <<>>, raises)
    \/ \E w \in Workers, raises \in BOOLEAN : WorkerEmit(w, raises)
    \/ SinkIdle
    \/ SinkGet

SpecScenario == Init /\ [][NextScenario]_vars

\* Live-frame cache: cameras 2 and 3 on either pool, frames with one plate or
\* none, every storage call of the sink may fail.
CachePlateLists == {<<>>, <<[id |-> 1, confidence |-> 2]>>}
NextCache ==
    \/ \E c \in {2, 3} : StartCamera(c)
    \/ \E c \in {2, 3} :
           /\ capture[c].frame_count < CacheReads
           /\ CaptureIteration(c, TRUE)
    \/ \E c \in {2, 3} : CaptureWake(c)
    \/ \E w \in Workers, ps \in CachePlateLists : WorkerGet(w, ps, FALSE)
    \/ \E w \in Workers : WorkerOcr(w, [text |-> "A", confidence |-> 2], FALSE)
    \/ \E w \in Workers : WorkerReconcile(w, FALSE)
    \/ \E w \in Workers : WorkerEmit(w, FALSE)
    \/ SinkIdle
    \/ SinkGet
    \/ \E fault \in Faults : SinkDetection(NoPlate, fault)

SpecCache == Init /\ [][NextCache]_vars

\* Capture loops alone: cameras 2 and 3 on either pool, reads that succeed or
\* fail, cameras stopped at any moment; no worker takes the tasks, so the
\* queues fill up and later frames are rejected.
NextCapture ==
    \/ \E c \in {2, 3} : StartCamera(c)
    \/ \E c \in {2, 3}, ret \in BOOLEAN :
           /\ ret => capture[c].frame_count < CaptureReads
           /\ CaptureIteration(c, ret)
    \/ \E c \in {2, 3} : CaptureWake(c)
    \/ \E c \in {2, 3} : StopCamera(c)
    \/ \E c \in {2, 3} : CaptureExit(c)


\* Start-up and shutdown: each worker loads its models or fails to, cameras
\* 2 and 3 submit frames that show no plate until the queues are closed, and
\* the pool is shut down at any moment.
NextLifecycle ==
    \/ \E w \in Workers, raises \in BOOLEAN : WorkerLoad(w, raises)
    \/ \E c \in {2, 3} : StartCamera(c)
    \/ \E c \in {2, 3} :
           /\ capture[c].frame_count < LifeReads
           /\ shutdown.pc # "closed"
           /\ CaptureIteration(c, TRUE)
    \/ \E c \in {2, 3} : CaptureWake(c)
    \/ \E w \in Workers : WorkerGet(w, <<>>, FALSE)
    \/ \E w \in Workers : WorkerEmit(w, FALSE)
    \/ ShutdownBegin
    \/ ShutdownJoin
    \/ ShutdownClose

SpecLifecycle == InitStartup /\ [][NextLifecycle]_vars

\* Streaming: camera 3 on one worker, frames without plates taken by the
\* sink, and the live streams of cameras 2 and 3 requested at any moment;
\* camera 2 is never started.
NextStream ==
    \/ /\ num_workers = 1
       /\ StartCamera(3)
    \/ /\ capture[3].frame_count < StreamReads
       /\ CaptureIteration(3, TRUE)
    \/ CaptureWake(3)
    \/ \E w \in Workers : WorkerGet(w, <<>>, FALSE)
    \/ \E w \in Workers : WorkerEmit(w, FALSE)
    \/ SinkIdle
    \/ SinkGet
    \/ \E c \in {2, 3} : GenStart(c)
    \/ \E c \in {2, 3} : GenRead(c)
    \/ \E c \in {2, 3} : GenWake(c)

SpecStream == Init /\ [][NextStream]_vars

\* Plate texts: camera 3 on one worker, one plate per frame, the plate image
\* being one in which the engines read the texts of a Rois element.
Digits12 == <<"1", "2", "3", "4", "5", "6", "7", "8", "9", "0", "1", "2">>
Digits11 == <<"1", "2", "3", "4", "5", "6", "7", "8", "9", "0", "1">>
Digits10 == <<"1", "2", "3", "4", "5", "6", "7", "8", "9", "0">>
Letters10 == <<"O", "1", "2", "3", "4", "5", "6", "7", "8", "I">>
Untidy == <<" ", "o", "1", "2", "-", "3", "4", "5", " ", "6", "7", "8", "|", "]", " ">>
Unknown10 == <<"X", "2", "3", "4", "5", "6", "7", "8", "9", "0">>
Rois ==
    {[easyocr |-> [text |-> t, confidence |-> 20], tesseract |-> <<>>] :
         t \in {Digits12, Digits11, Digits10, Letters10, Untidy, Unknown10}}
    \cup {[easyocr |-> [text |-> Letters10, confidence |-> 16], tesseract |-> Letters10],
          [easyocr |-> NoRead, tesseract |-> Digits10],
          [easyocr |-> NoRead, tesseract |-> <<>>]}
NextOcr ==
    \/ /\ num_workers = 1
       /\ StartCamera(3)
    \/ /\ capture[3].frame_count < OcrReads
       /\ CaptureIteration(3, TRUE)
    \/ CaptureWake(3)
    \/ \E w \in Workers, roi \in Rois :
           WorkerGet(w, <<[id |-> 1, confidence |-> 24, roi |-> roi]>>, FALSE)
    \/ \E w \in Workers :
           /\ worker[w].pc = "plate"
           /\ worker[w].license_plates # <<>>
           /\ WorkerOcr(w, recognize_plate_text(Head(worker[w].license_plates).roi), FALSE)
    \/ \E w \in Workers : WorkerReconcile(w, FALSE)
    \/ \E w \in Workers : WorkerEmit(w, FALSE)
    \/ GetResult

SpecOcr == Init /\ [][NextOcr]_vars

\* Detection: camera 3 on one worker.  The detection model finds in a frame
\* the boxes of one of Scenes, by the frame's number; the tracker returns up
\* to MaxPlates boxes of TrackedPlates with distinct ids.  Confidences are in
\* units of 0.025 (PLATE_DETECTION_CONFIDENCE 0.6 is 24).
Box(x1, y1, x2, y2) == [x1 |-> x1, y1 |-> y1, x2 |-> x2, y2 |-> y2]
Raw(box, confidence) == box @@ [confidence |-> confidence]
Scenes ==
    << <<Raw(Box(0, 0, 4, 2), 28)>>,
       <<Raw(Box(0, 0, 4, 2), 26), Raw(Box(10, 0, 14, 2), 32)>>,
       <<Raw(Box(0, 0, 8, 4), 30), Raw(Box(1, 0, 4, 2), 36)>>,
       <<>> >>
detection_model(frame) == Scenes[((frame \div FRAME_SKIP) % Len(Scenes)) + 1]
TrackedBoxes == {Box(0, 0, 4, 2), Box(1, 0, 5, 2), Box(11, 0, 15, 2), Box(20, 20, 24, 22)}
TrackedPlates ==
    {ps \in SeqsUpTo({b @@ [id |-> id] : b \in TrackedBoxes, id \in {1, 2}}, MaxPlates) :
         DistinctIds(ps)}
NextDetect ==
    \/ /\ num_workers = 1
       /\ StartCamera(3)
    \/ /\ capture[3].frame_count < DetectReads
       /\ CaptureIteration(3, TRUE)
    \/ CaptureWake(3)
    \/ \E w \in Workers, tracked_plates \in TrackedPlates :
           /\ input_queues[w] # <<>>
           /\ WorkerGet(w, detect_license_plates(
                              detection_model(Dequeue(input_queues[w]).task.frame),
                              tracked_plates), FALSE)
    \/ \E w \in Workers : WorkerOcr(w, [text |-> "A", confidence |-> 2], FALSE)
    \/ \E w \in Workers : WorkerReconcile(w, FALSE)
    \/ \E w \in Workers : WorkerEmit(w, FALSE)
    \/ GetResult

SpecDetect == Init /\ [][NextDetect]_vars

\* Touches: camera 3 on one worker, frames with up to HISTORY_SIZE_THRESHOLD
\* tracked plates, every reading of Readings; nothing raises but the
\* reconciliation itself.
NextTouch ==
    \/ /\ num_workers = 1
       /\ StartCamera(3)
    \/ /\ capture[3].frame_count < TouchReads
       /\ CaptureIteration(3, TRUE)
    \/ CaptureWake(3)
    \/ \E w \in Workers, ps \in PlateLists(TrackIds, {2}, HISTORY_SIZE_THRESHOLD) :
           WorkerGet(w, ps, FALSE)
    \/ \E w \in Workers, ocr_result \in Readings : WorkerOcr(w, ocr_result, FALSE)
    \/ \E w \in Workers : WorkerReconcile(w, FALSE)
    \/ \E w \in Workers : WorkerEmit(w, FALSE)
    \/ GetResult

SpecTouch == Init /\ [][NextTouch]_vars

\* Flow: camera 3 on either pool, frames showing no plate or track 1 read as
\* "A"; every step of a task may raise and every storage call of the sink
\* may raise.
NextFlow ==
    \/ StartCamera(3)
    \/ /\ capture[3].frame_count < FlowReads
       /\ CaptureIteration(3, TRUE)
    \/ CaptureWake(3)
    \/ \E w \in Workers, ps \in {<<>>, <<[id |-> 1, confidence |-> 2]>>},
          raises \in BOOLEAN : WorkerGet(w, ps, raises)
    \/ \E w \in Workers, raises \in BOOLEAN :
           WorkerOcr(w, [text |-> "A", confidence |-> 2], raises)
    \/ \E w \in Workers, raises \in BOOLEAN : WorkerReconcile(w, raises)
    \/ \E w \in Workers, raises \in BOOLEAN : WorkerEmit(w, raises)
    \/ SinkIdle
    \/ SinkGet
    \/ \E fault \in Faults : SinkDetection(NoPlate, fault)

SpecFlow == Init /\ [][NextFlow]_vars

\* The operating system runs every worker process that can take a step: a
\* task is waiting for input_queue.get, or a call of the task at hand
\* returns or raises.
WorkerStep(w) ==
    \/ \E ps \in {<<>>, <<[id |-> 1, confidence |-> 2]>>}, raises \in BOOLEAN :
           WorkerGet(w, ps, raises)
    \/ \E raises \in BOOLEAN : WorkerOcr(w, [text |-> "A", confidence |-> 2], raises)
    \/ \E raises \in BOOLEAN : WorkerReconcile(w, raises)
    \/ \E raises \in BOOLEAN : WorkerEmit(w, raises)

\* The event loop runs result_handler: get_result returns a result, or a
\* storage call of the detection at hand returns or raises.
SinkRuns ==
    \/ SinkGet
    \/ \E fault \in Faults : SinkDetection(NoPlate, fault)

SpecFlowFair ==
    /\ Init
    /\ [][NextFlow]_vars
    /\ \A w \in Workers : WF_vars(WorkerStep(w))
    /\ WF_vars(SinkRuns)

\* Shutdown of the capture side: cameras 2 and 3, reads that succeed, fail
\* or raise, cameras stopped at any moment, CameraManager.shutdown called at
\* any moment; start_camera is not called once shutdown has been.  No worker
\* takes the tasks.
NextManager ==
    \/ \E c \in {2, 3} :
           /\ manager.pc = "none"
           /\ StartCamera(c)
    \/ \E c \in {2, 3}, ret \in BOOLEAN :
           /\ ret => capture[c].frame_count < ManagerReads
           /\ CaptureIteration(c, ret)
    \/ \E c \in {2, 3} : CaptureWake(c)
    \/ \E c \in {2, 3} : StopCamera(c)
    \/ \E c \in {2, 3} : CaptureExit(c)
    \/ \E c \in {2, 3} : CaptureRaise(c)
    \/ ManagerShutdown
    \/ ManagerShutdownReturn

SpecManager == Init /\ [][NextManager]_vars

SpecCapture == Init /\ [][NextCapture]_vars

\* The event loop runs every capture coroutine that is ready: a read
\* returns, a sleep ends, the loop condition is evaluated.
CaptureStep(c) ==
    \/ \E ret \in BOOLEAN :
           /\ ret => capture[c].frame_count < CaptureReads
           /\ CaptureIteration(c, ret)
    \/ CaptureWake(c)
    \/ CaptureExit(c)

SpecCaptureFair ==
    Init /\ [][NextCapture]_vars /\ \A c \in {2, 3} : WF_vars(CaptureStep(c))


\* ----------------------------------------------------------------- claims
TasksOf(q, c) == SelectSeq(q, LAMBDA t : t.camera_id = c)
Frames(q) == [i \in 1 .. Len(q) |-> q[i].frame]
Increasing(fs) == \A i, j \in 1 .. Len(fs) : i < j => fs[i] < fs[j]
\* The step is camera c's capture loop calling submit_frame.
Submits(c) == capture[c].pc = "loop" /\ capture'[c].pc = "yield"

\* C1: every task sits in input queue camera_id mod num_workers, and a
\* camera's tracker and history exist only in worker camera_id mod
\* num_workers, hence in no two workers.
C1_Affinity ==
    \A w \in Workers :
        /\ \A i \in 1 .. Len(input_queues[w]) :
               input_queues[w][i].camera_id % num_workers = w
        /\ \A c \in trackers[w] \cup DOMAIN tracker_history[w] :
               /\ c % num_workers = w
               /\ \A v \in Workers \ {w} :
                      c \notin trackers[v] \cup DOMAIN tracker_history[v]

\* Cameras 1 and 3 have their trackers in worker 1 and camera 2 has its
\* tracker in worker 0.
C1_Witness ==
    /\ num_workers = 2
    /\ trackers[1] = {1, 3} /\ DOMAIN tracker_history[1] = {1, 3}
    /\ trackers[0] = {2} /\ DOMAIN tracker_history[0] = {2}

\* C2: for every camera, the frames of its results on the output queue,
\* then of the task its worker is processing, then of its tasks still in the
\* input queue, are in the order in which submit_frame accepted them
\* (increasing frame number), whatever else is interleaved with them.
C2_PerCameraOrder ==
    \A c \in Cameras :
        LET w == c % num_workers
            results == SelectSeq(output_queue, LAMBDA r : r.camera_id = c)
            out == [i \in 1 .. Len(results) |-> results[i].annotated_frame]
            cur == IF worker[w].pc # "get" /\ worker[w].task.camera_id = c
                   THEN <<worker[w].task.frame>> ELSE <<>>
            inq == Frames(TasksOf(input_queues[w], c))
        IN  Increasing(out \o cur \o inq)

\* Cameras 1 and 3 share worker 1; their results alternate on the output
\* queue with a result of worker 0 between them.
C2_Witness ==
    /\ num_workers = 2
    /\ Len(output_queue) = 5
    /\ [i \in 1 .. 5 |-> <<output_queue[i].camera_id, output_queue[i].annotated_frame>>]
           = << <<1, 2>>, <<3, 2>>, <<2, 2>>, <<1, 4>>, <<3, 4>> >>

\* C3: a submit_frame that finds its queue at capacity returns False and
\* leaves the queues alone; a dequeue from a queue at capacity leaves one
\* free slot; a submit_frame that finds one free slot returns True and
\* brings the queue to capacity.
C3_Capacity ==
    [][ /\ \A c \in Cameras :
               Submits(c) =>
                   LET w == c % num_workers
                   IN  /\ Len(input_queues[w]) = maxsize =>
                              /\ capture'[c].submitted = "False"
                              /\ input_queues' = input_queues
                       /\ Len(input_queues[w]) = maxsize - 1 =>
                              /\ capture'[c].submitted = "True"
                              /\ Len(input_queues'[w]) = maxsize
        /\ \A w \in Workers :
               (Len(input_queues[w]) = maxsize /\ input_queues'[w] # input_queues[w]) =>
                   Len(input_queues'[w]) = maxsize - 1
        /\ \A w \in Workers : Len(input_queues'[w]) <= maxsize
      ]_vars

\* Worker 1 is processing the first frame of camera 1, the second frame of
\* camera 1 is nowhere (it was rejected), and camera 3's second frame has
\* just been accepted, which fills the queue again.
C3_Witness ==
    /\ num_workers = 2
    /\ worker[1].pc = "plate" /\ worker[1].task.camera_id = 1
    /\ worker[1].task.frame = FRAME_SKIP
    /\ capture[1].frame_count = 2 * FRAME_SKIP
    /\ Len(input_queues[1]) = maxsize
    /\ \A i \in 1 .. Len(input_queues[1]) : input_queues[1][i].camera_id = 3
    /\ capture[3].pc = "yield" /\ capture[3].submitted = "True"
    /\ output_queue = <<>>

\* C4: a submit_frame that returns False changes no input queue, and the
\* capture loop goes to its pause with the frame counted; every task that
\* enters a queue carries the frame its capture loop has just read, so a
\* rejected frame is never submitted later.
C4_Rejected ==
    [][ \A c \in Cameras :
            /\ (Submits(c) /\ capture'[c].submitted = "False") =>
                   /\ input_queues' = input_queues
                   /\ capture'[c].frame_count = capture[c].frame_count + 1
            /\ \A w \in Workers :
                   Len(TasksOf(input_queues'[w], c)) > Len(TasksOf(input_queues[w], c)) =>
                       /\ Submits(c)
                       /\ capture'[c].submitted = "True"
                       /\ TasksOf(input_queues'[w], c) =
                              Append(TasksOf(input_queues[w], c),
                                     [camera_id |-> c,
                                      frame |-> capture[c].frame_count + 1,
                                      timestamp |-> clock])
      ]_vars

\* Worker 1 has processed nothing and its queue is full of camera 3's
\* frames; camera 1's first submitted frame is in no queue and its loop has
\* already read the next frame.
C4_Witness ==
    /\ num_workers = 2
    /\ trackers[1] = {} /\ worker[1].pc = "get"
    /\ Len(input_queues[1]) = maxsize
    /\ \A i \in 1 .. Len(input_queues[1]) : input_queues[1][i].camera_id = 3
    /\ input_queues[0] = <<>> /\ trackers[0] = {}
    /\ capture[1].frame_count = FRAME_SKIP + 1
    /\ capture[1].pc = "loop"

\* The step is worker w reconciling the plate it has just read (lines 58-77).
ReconcileStep(w) == worker[w].pc = "reconcile" /\ worker'[w].pc # "reconcile"
\* In such a step: the track id, the incoming reading, the camera's history
\* before and after, and the detection record appended.
StepId(w) == Head(worker[w].license_plates).id
Incoming(w) == worker[w].ocr_result
HistoryBefore(w) == tracker_history[w][worker[w].task.camera_id]
HistoryAfter(w) == tracker_history'[w][worker[w].task.camera_id]
Appended(w) == worker'[w].detections[Len(worker'[w].detections)]
Ids(h) == [i \in 1 .. Len(h) |-> h[i].id]
TaskOfResult(r) ==
    [camera_id |-> r.camera_id, frame |-> r.annotated_frame, timestamp |-> r.timestamp]

C6_Monotone ==
    [][ \A w \in Workers :
            \A c \in DOMAIN tracker_history[w] \cap DOMAIN tracker_history'[w] :
                \A t \in Keys(tracker_history[w][c]) \cap Keys(tracker_history'[w][c]) :
                    Get(tracker_history'[w][c], t).confidence
                        >= Get(tracker_history[w][c], t).confidence
      ]_vars

\* Track 1 was stored at confidence 4 by the first frame and the second
\* frame's plate for track 1 has been reconciled: the entry still holds
\* confidence 4.
C6_Witness ==
    \E w \in Workers :
        /\ Len(output_queue) = 1
        /\ output_queue[1].annotated_frame = FRAME_SKIP
        /\ Len(output_queue[1].detections) = 1
        /\ output_queue[1].detections[1].id = 1
        /\ output_queue[1].detections[1].ocr.confidence = 4
        /\ worker[w].pc = "plate"
        /\ worker[w].task.frame = 2 * FRAME_SKIP
        /\ Len(worker[w].detections) = 1
        /\ worker[w].detections[1].id = 1
        /\ 3 \in DOMAIN tracker_history[w]
        /\ Ids(tracker_history[w][3]) = <<1>>
        /\ tracker_history[w][3][1].confidence = 4

C8_Bounded ==
    [][ \A w \in Workers :
            /\ \A c \in DOMAIN tracker_history'[w] :
                   Len(tracker_history'[w][c]) <= HISTORY_SIZE_THRESHOLD
            /\ (/\ ReconcileStep(w)
                /\ StepId(w) \notin Keys(HistoryBefore(w))
                /\ Len(HistoryBefore(w)) = HISTORY_SIZE_THRESHOLD)
               => Ids(HistoryAfter(w)) =
                      Append(Tail(Ids(HistoryBefore(w))), StepId(w))
      ]_vars

\* The first frame inserted tracks 1 and 2, the second frame inserted track
\* 3, and the history holds tracks 2 and 3 in that order.
C8_Witness ==
    \E w \in Workers :
        /\ HISTORY_SIZE_THRESHOLD = 2
        /\ Len(output_queue) = 1
        /\ output_queue[1].annotated_frame = FRAME_SKIP
        /\ Ids(output_queue[1].detections) = <<1, 2>>
        /\ worker[w].task.frame = 2 * FRAME_SKIP
        /\ Ids(worker[w].detections) = <<3>>
        /\ 3 \in DOMAIN tracker_history[w]
        /\ Ids(tracker_history[w][3]) = <<2, 3>>

\* C9: a step that logs an error for a task puts nothing on the output
\* queue, leaves the task's worker at the head of its loop with the tasks
\* behind the failed one still queued, and no result of a failed task is
\* ever on the output queue; no worker leaves its loop.
C9_FaultIsolation ==
    [][ /\ \A w \in Workers : worker'[w].pc \in {"get", "plate", "reconcile"}
        /\ \A i \in 1 .. Len(output_queue') :
               TaskOfResult(output_queue'[i]) \notin error_log'
        /\ \A t \in error_log' \ error_log :
               LET w == t.camera_id % num_workers
               IN  /\ output_queue' = output_queue
                   /\ worker'[w] = Idle
                   /\ \/ worker[w].task = t /\ input_queues' = input_queues
                      \/ /\ worker[w] = Idle
                         /\ input_queues[w] # <<>>
                         /\ Head(input_queues[w]) = t
                         /\ input_queues' =
                                [input_queues EXCEPT ![w] = Tail(input_queues[w])]
      ]_vars

\* Camera 3's first frame failed and was logged; the frame behind it has
\* been processed and its result is on the output queue.
C9_Witness ==
    /\ \E t \in error_log : t.camera_id = 3 /\ t.frame = FRAME_SKIP
    /\ Len(output_queue) = 1
    /\ output_queue[1].camera_id = 3
    /\ output_queue[1].annotated_frame = 2 * FRAME_SKIP
    /\ Len(output_queue[1].detections) > 0

\* The step is the sink reconciling the detection at hand (lines 39-102).
SinkStep == sink.pc = "detection" /\ sink' # sink
AtHand == Head(sink.detections)

\* C10: when the detection at hand carries the text that the history entry
\* of its track already holds (the state a completed reconciliation of the
\* same track id and text leaves), reconciling it writes nothing to the
\* table, whatever its confidence, and the history afterwards is the history
\* before with that entry, unchanged, moved to the most-recent position.
C10_NoOpTouch ==
    [][ (/\ SinkStep
         /\ AtHand.ocr.text # ""
         /\ AtHand.id \in Keys(history)
         /\ Get(history, AtHand.id).text = AtHand.ocr.text)
        => /\ db' = db
           /\ history' = MoveToEnd(history, AtHand.id)
           /\ Get(history', AtHand.id) = Get(history, AtHand.id)
           /\ Len(db) >= 1
      ]_vars

\* Track 1 read as "B" was reconciled from the first frame at overall
\* confidence 2, which stored row 1, and is at hand again from the second
\* frame with the same text at overall confidence 3.
C10_Witness ==
    /\ 3 \in DOMAIN frames
    /\ frames[3] = 2 * FRAME_SKIP
    /\ sink.pc = "detection"
    /\ AtHand.id = 1
    /\ AtHand.ocr.text = "B"
    /\ AtHand.overall_confidence = 3
    /\ history = <<[id |-> 1, text |-> "B", confidence |-> 2, record |-> 1]>>
    /\ Len(db) = 1
    /\ db[1].detected_plate_text = "B"
    /\ db[1].overall_confidence = 2

\* C11: when the detection at hand carries a text other than the one its
\* track's history entry holds, the table keeps its number of rows, no other
\* row changes and the entry keeps its record reference; the row written is
\* the entry's row, it then holds the new text and confidence, and the entry
\* holds the new text and confidence at the most-recent position.
C11_UpdateInPlace ==
    [][ (/\ SinkStep
         /\ AtHand.ocr.text # ""
         /\ AtHand.id \in Keys(history)
         /\ Get(history, AtHand.id).text # AtHand.ocr.text)
        => LET prev == Get(history, AtHand.id)
           IN  /\ Len(db') = Len(db)
               /\ \A i \in 1 .. Len(db) : i # prev.record => db'[i] = db[i]
               /\ AtHand.id \in Keys(history')
               /\ Get(history', AtHand.id).record = prev.record
               /\ Ids(history') \in {Ids(history), Ids(MoveToEnd(history, AtHand.id))}
               /\ db' # db =>
                      /\ db'[prev.record] =
                             [db'[prev.record] EXCEPT
                                !.detected_plate_text = AtHand.ocr.text,
                                !.overall_confidence = AtHand.overall_confidence]
                      /\ db'[prev.record].camera_id = db[prev.record].camera_id
                      /\ db'[prev.record].detected_at = db[prev.record].detected_at
                      /\ db'[prev.record].plate_id = db[prev.record].plate_id
                      /\ history'[Len(history')] =
                             [id |-> AtHand.id, text |-> AtHand.ocr.text,
                              confidence |-> AtHand.overall_confidence,
                              record |-> prev.record]
      ]_vars

\* One row is stored; it was created with no registry plate found (no
\* registry link) and has since been updated to text "B" at overall
\* confidence 3 with an authorized plate found, and the track's entry holds
\* that text and confidence with the same record reference.
C11_Witness ==
    /\ sink = Polling
    /\ Len(db) = 1
    /\ db[1].detected_plate_text = "B"
    /\ db[1].overall_confidence = 3
    /\ db[1].status = "authorized"
    /\ db[1].plate_id = 0
    /\ history = <<[id |-> 1, text |-> "B", confidence |-> 3, record |-> 1]>>

\* The status derived from the registry lookup of a text (line 82).
DerivedStatus(plate_text) ==
    IF Found(plate_text) = NoPlate THEN "unknown"
    ELSE from_flags(Found(plate_text).is_authorized, Found(plate_text).is_blacklisted)

\* C12 as claimed: when the text of a track with a stored row changes and
\* the row is written, its status afterwards is the status derived from the
\* registry lookup of the new text, unknown when nothing matches.
C12_Original ==
    [][ (/\ SinkStep
         /\ AtHand.ocr.text # ""
         /\ AtHand.id \in Keys(history)
         /\ Get(history, AtHand.id).text # AtHand.ocr.text
         /\ db' # db)
        => db'[Get(history, AtHand.id).record].status = DerivedStatus(AtHand.ocr.text)
      ]_vars

\* C13: when the detection at hand has a non-empty text and its track has no
\* history entry, the table gains at most the one row built from the text,
\* the confidence, the result's camera id and timestamp and the status and
\* link the registry lookup of the text gives (unknown and no link when
\* nothing matches); the history gains at most the entry (text, confidence,
\* reference of that row), and gains it only in a step in which the row is
\* in the table.
C13_NewSighting ==
    [][ (/\ SinkStep
         /\ AtHand.ocr.text # ""
         /\ AtHand.id \notin Keys(history))
        => LET row == [detected_plate_text |-> AtHand.ocr.text,
                       overall_confidence |-> AtHand.overall_confidence,
                       status |-> DerivedStatus(AtHand.ocr.text),
                       detected_at |-> sink.timestamp,
                       camera_id |-> sink.camera_id,
                       plate_id |-> Found(AtHand.ocr.text).id]
               entry == [id |-> AtHand.id, text |-> AtHand.ocr.text,
                         confidence |-> AtHand.overall_confidence,
                         record |-> Len(db) + 1]
           IN  /\ db' \in {db, Append(db, row)}
               /\ history' \in {history, Append(history, entry)}
               /\ history' # history => db' = Append(db, row)
               /\ Found(AtHand.ocr.text) = NoPlate =>
                      row.status = "unknown" /\ row.plate_id = 0
      ]_vars

\* Track 1, read as "B" that no registry plate contains, was submitted at
\* time 1 and reconciled after time 2: the one row carries the result's
\* timestamp, status unknown and no registry link, and the entry refers to it.
C13_Witness ==
    /\ sink = Polling
    /\ clock = 2
    /\ db = <<[detected_plate_text |-> "B", overall_confidence |-> 3,
               status |-> "unknown", detected_at |-> 1, camera_id |-> 3,
               plate_id |-> 0]>>
    /\ history = <<[id |-> 1, text |-> "B", confidence |-> 3, record |-> 1]>>

\* C14: every reconciliation step, whatever storage call raises in it, leaves
\* the sink at the next detection of the same result, or polling when there
\* is none, and leaves the output queue and the live-frame cache as they are.
C14_SinkGoesOn ==
    [][ SinkStep =>
            /\ sink' = NextDetection
            /\ sink'.pc \in {"poll", "detection"}
            /\ output_queue' = output_queue
            /\ frames' = frames
      ]_vars

\* The first result's first detection stored row 1 and then failed (no entry
\* refers to row 1), its second detection was reconciled into row 2, and the
\* second result, with two detections, has been taken up.
C14_Witness ==
    /\ 3 \in DOMAIN frames
    /\ frames[3] = 2 * FRAME_SKIP
    /\ sink.pc = "detection"
    /\ Len(sink.detections) = 2
    /\ Len(db) = 2
    /\ Len(history) = 1
    /\ history[1].record = 2

\* C19: reconciling a detection whose text is empty changes neither the
\* table nor the history and leaves the sink at the next detection of the
\* result.
C19_EmptyTextSkipped ==
    [][ (SinkStep /\ AtHand.ocr.text = "")
        => /\ db' = db
           /\ history' = history
           /\ sink' = NextDetection
      ]_vars

\* The only frame processed showed track 1, not read, and then track 2, read
\* as "A": the sink is through with its result, track 1 left no row and no
\* entry, track 2 has its row and entry.
C19_Witness ==
    /\ capture[3].frame_count < 2 * FRAME_SKIP
    /\ 3 \in DOMAIN frames
    /\ frames[3] = FRAME_SKIP
    /\ sink = Polling
    /\ 3 \in DOMAIN tracker_history[0]
    /\ Len(tracker_history[0][3]) = 2
    /\ tracker_history[0][3][1] = [id |-> 1, ocr |-> NoReading, confidence |-> 0]
    /\ tracker_history[0][3][2].id = 2
    /\ Len(db) = 1
    /\ db[1].detected_plate_text = "A"
    /\ history = <<[id |-> 2, text |-> "A", confidence |-> 2, record |-> 1]>>

\* C15 as claimed: the sink's history never holds more entries than the
\* configured bound.
C15_Original == Len(history) <= HISTORY_SIZE_THRESHOLD

\* The step removes entries from the sink's history.
Evicts == Len(history') < Len(history)
Entries(h) == {h[i] : i \in 1 .. Len(h)}

\* C16 as claimed: the entries an eviction removes were all inserted before
\* the entries it keeps (rows are numbered in order of insertion), touched
\* again or not.
C16_Original ==
    [][ Evicts =>
            \A e \in Entries(history) \ Entries(history') :
                \A k \in Entries(history') : e.record < k.record
      ]_vars

\* C16 amended: a reconciliation that completes and is not skipped leaves its
\* track's entry at the most-recent position, and an eviction removes the entries
\* from the least-recently reconciled end and keeps the last
\* HISTORY_SIZE_THRESHOLD of them in their order.
C16_RecencyOrder ==
    [][ /\ (SinkStep /\ AtHand.ocr.text # "") =>
               history'[Len(history')].id = AtHand.id
        /\ Evicts =>
               /\ Len(history') = HISTORY_SIZE_THRESHOLD
               /\ history' = SubSeq(history, Len(history) - HISTORY_SIZE_THRESHOLD + 1,
                                    Len(history))
      ]_vars

\* Tracks 1, 2 and 3 were inserted in that order (rows 1, 2, 3), track 1 was
\* touched again after track 2 was inserted, and an eviction has removed the
\* entry of track 2 while the one of track 1 stays.
C16_Witness ==
    /\ Len(db) = 3
    /\ Ids(history) = <<1, 3>>
    /\ history[1].record = 1
    /\ history[2].record = 3
    /\ sink = Polling

\* Camera c's items in the pipeline, oldest first: its results on the output
\* queue, the task its worker is processing, its tasks in the input queues.
Results(c) == SelectSeq(output_queue, LAMBDA r : r.camera_id = c)
Pipeline(c) ==
    LET results == Results(c)
        w == c % num_workers
        tasks == TasksOf(input_queues[w], c)
    IN  [i \in 1 .. Len(results) |->
            [frame |-> results[i].annotated_frame, timestamp |-> results[i].timestamp]]
        \o (IF worker[w].pc # "get" /\ worker[w].task.camera_id = c
            THEN <<[frame |-> worker[w].task.frame, timestamp |-> worker[w].task.timestamp]>>
            ELSE <<>>)
        \o [i \in 1 .. Len(tasks) |->
            [frame |-> tasks[i].frame, timestamp |-> tasks[i].timestamp]]
\* The step is the sink taking a result: the live-frame cache changes.
SinkTakes == sink.pc = "poll" /\ frames' # frames

\* Camera 3's items are worker 1's, of distinct submitted frames, in
\* submission order, with non-decreasing timestamps none later than the clock.
ScenarioOrder ==
    LET now == Pipeline(3)
    IN  /\ \A i \in 1 .. Len(input_queues[0]) : input_queues[0][i].camera_id # 3
        /\ worker[0].pc # "get" => worker[0].task.camera_id # 3
        /\ \A i \in 1 .. Len(output_queue) :
               output_queue[i].camera_id = 3 => output_queue[i].worker_id = 1
        /\ \A i \in 1 .. Len(now) :
               /\ now[i].frame % FRAME_SKIP = 0
               /\ now[i].frame <= ScenarioFrames * FRAME_SKIP
               /\ now[i].timestamp <= clock
               /\ \A j \in i + 1 .. Len(now) :
                      /\ now[i].frame < now[j].frame
                      /\ now[i].timestamp <= now[j].timestamp
\* What a step of the scenario does to the pipeline of camera 3.
ScenarioStep ==
    /\ IF Submits(3)
       THEN Pipeline(3)' = IF capture'[3].submitted = "True"
                           THEN Append(Pipeline(3), [frame |-> capture'[3].frame_count,
                                                     timestamp |-> clock])
                           ELSE Pipeline(3)
       ELSE \/ Pipeline(3)' = Pipeline(3)
            \/ \E k \in 1 .. Len(Pipeline(3)) :
                   Pipeline(3)' = SubSeq(Pipeline(3), 1, k - 1)
                                  \o SubSeq(Pipeline(3), k + 1, Len(Pipeline(3)))
    /\ SinkTakes =>
           /\ output_queue # <<>>
           /\ output_queue' = Tail(output_queue)
           /\ frames'[3] = Head(output_queue).annotated_frame
           /\ 3 \in DOMAIN frames => frames[3] < frames'[3]
           /\ \A i \in 1 .. Len(output_queue') :
                  /\ Head(output_queue).timestamp <= output_queue'[i].timestamp
                  /\ Head(output_queue).annotated_frame < output_queue'[i].annotated_frame

\* C17: with camera 3 on a pool of two workers and ScenarioFrames frames
\* submitted in order, every task of camera 3 is in worker 1's queue or in
\* worker 1; the items of camera 3 in the pipeline are of distinct submitted
\* frames, in submission order, with non-decreasing timestamps none later
\* than the clock; an accepted frame adds exactly its own task at the end, a
\* rejected frame adds nothing, and no other step adds an item; the sink
\* takes the oldest result, removes it from the output queue, takes frames in
\* increasing order, and what it takes is stamped no later than anything
\* still in the pipeline (hence than anything it takes afterwards, later
\* frames being stamped with the clock, which never goes back).
C17_Scenario == []ScenarioOrder /\ [][ScenarioStep]_vars

\* The sink has taken the result of the first frame, worker 1 holds the
\* second frame, the third and the fourth fill its queue with different
\* timestamps, and the fifth frame has just been rejected.
C17_Witness ==
    /\ num_workers = 2
    /\ 3 \in DOMAIN frames /\ frames[3] = FRAME_SKIP
    /\ worker[1].pc # "get" /\ worker[1].task.frame = 2 * FRAME_SKIP
    /\ Frames(input_queues[1]) = <<3 * FRAME_SKIP, 4 * FRAME_SKIP>>
    /\ input_queues[1][1].timestamp < input_queues[1][2].timestamp
    /\ capture[3] = [pc |-> "yield", frame_count |-> ScenarioFrames * FRAME_SKIP,
                     submitted |-> "False"]

\* Worker w holds a task whose frame showed no plate: nothing was detected
\* and nothing is left to read.
NoPlateTask(w) ==
    /\ worker[w].pc = "plate"
    /\ worker[w].license_plates = <<>>
    /\ worker[w].detections = <<>>

\* C18: a task in whose frame no plate is detected leaves every history of
\* its worker as it was (a camera seen for the first time gets an empty
\* one), and when it completes exactly one result is appended to the output
\* queue, with the task's camera id and timestamp and an empty detection
\* list; the only other outcome is the task's failure, which is logged.
C18_NoPlateResult ==
    [][ \A w \in Workers :
            /\ (/\ worker[w].pc = "get"
                /\ NoPlateTask(w)')
               => /\ \A c \in DOMAIN tracker_history[w] :
                         tracker_history'[w][c] = tracker_history[w][c]
                  /\ \A c \in DOMAIN tracker_history'[w] \ DOMAIN tracker_history[w] :
                         tracker_history'[w][c] = <<>>
                  /\ output_queue' = output_queue
            /\ (/\ NoPlateTask(w)
                /\ worker'[w] # worker[w])
               => /\ tracker_history' = tracker_history
                  /\ \/ /\ worker[w].task \in error_log'
                        /\ output_queue' = output_queue
                     \/ /\ error_log' = error_log
                        /\ Len(output_queue') = Len(output_queue) + 1
                        /\ SubSeq(output_queue', 1, Len(output_queue)) = output_queue
                        /\ output_queue'[Len(output_queue')] =
                               [camera_id |-> worker[w].task.camera_id,
                                annotated_frame |-> worker[w].task.frame,
                                timestamp |-> worker[w].task.timestamp,
                                detections |-> <<>>,
                                worker_id |-> w]
      ]_vars

\* The first frame of camera 3 showed a plate and the second none: the
\* second result has no detection, and the history still holds the reading
\* of the first.
C18_Witness ==
    /\ Len(output_queue) = 2
    /\ output_queue[1].detections # <<>>
    /\ output_queue[2].camera_id = 3
    /\ output_queue[2].annotated_frame = 2 * FRAME_SKIP
    /\ output_queue[2].detections = <<>>
    /\ tracker_history[3 % num_workers][3] # <<>>
    /\ worker[3 % num_workers] = Idle

\* The step is the sink's get_result returning a result.
SinkConsumes == sink.pc = "poll" /\ Len(output_queue') < Len(output_queue)

\* C20: when the sink takes a result, the live-frame cache entry of the
\* result's camera becomes the result's annotated frame, with or without
\* detections, and the other cameras' entries stay as they were; no other
\* step of the sink, a reconciliation whose storage calls fail included,
\* changes the cache, so an entry once present stays present.
C20_LiveFrame ==
    [][ /\ SinkConsumes =>
               LET result == Head(output_queue)
               IN  /\ DOMAIN frames' = DOMAIN frames \cup {result.camera_id}
                   /\ frames'[result.camera_id] = result.annotated_frame
                   /\ \A c \in DOMAIN frames \ {result.camera_id} :
                          frames'[c] = frames[c]
        /\ ~SinkConsumes => frames' = frames
      ]_vars

\* Camera 3's only frame showed a plate whose reconciliation failed and left
\* nothing in storage, camera 2's entry was overwritten by its second frame,
\* which showed no plate: both entries hold the latest frame taken.
C20_Witness ==
    /\ DOMAIN frames = {2, 3}
    /\ frames[3] = FRAME_SKIP
    /\ capture[3].frame_count < 2 * FRAME_SKIP
    /\ tracker_history[3 % num_workers][3] # <<>>
    /\ frames[2] = 2 * FRAME_SKIP
    /\ tracker_history[2 % num_workers][2] = <<>>
    /\ output_queue = <<>>
    /\ sink = Polling
    /\ db = <<>>
    /\ history = <<>>

\* The step is an iteration of camera c's capture loop that reads the stream.
Reads(c) ==
    /\ capture[c].pc = "loop"
    /\ capture'[c] # capture[c]
    /\ capture'[c].pc # "stopped"

\* C21: an iteration of the capture loop advances the count of successful
\* reads by one when its read succeeds and leaves it alone when its read
\* fails; it calls submit_frame exactly when the advanced count is a multiple
\* of FRAME_SKIP, with the frame just counted, and touches no queue
\* otherwise.  Hence after k successful reads submit_frame was called
\* floor(k / FRAME_SKIP) times.
C21_Decimation ==
    [][ \A c \in Cameras :
            Reads(c) =>
                LET k == capture[c].frame_count
                    after == capture'[c].frame_count
                IN  /\ after \in {k, k + 1}
                    /\ after = k <=> capture'[c].pc = "backoff"
                    /\ Submits(c) <=> (after = k + 1 /\ after % FRAME_SKIP = 0)
                    /\ Submits(c) =>
                           \/ /\ capture'[c].submitted = "True"
                              /\ input_queues' =
                                     [input_queues EXCEPT ![WorkerOf(c)] =
                                        Append(@, [camera_id |-> c, frame |-> after,
                                                   timestamp |-> clock])]
                           \/ /\ capture'[c].submitted = "False"
                              /\ input_queues' = input_queues
                    /\ ~Submits(c) => input_queues' = input_queues
      ]_vars

\* Camera 3 has read three frames and then failed a read: one frame, the
\* second, was submitted.
C21_Witness ==
    /\ capture[3] = [pc |-> "backoff", frame_count |-> 3, submitted |-> "unset"]
    /\ Frames(TasksOf(input_queues[WorkerOf(3)], 3)) = <<FRAME_SKIP>>

\* stop_camera(c) was called: the camera is in the pool with its flag cleared.
Stopped(c) == c \in DOMAIN camera_pool /\ ~camera_pool[c].active

\* C22: once stop_camera(c) has cleared the flag, the capture loop of c,
\* wherever it is (reading, backing off after a failed read, sleeping after
\* a submitted or a rejected frame), eventually finds the flag false,
\* releases the stream and returns.
C22_StopObserved ==
    \A c \in {2, 3} : Stopped(c) ~> (capture[c].pc = "stopped")

\* Camera 3 was stopped after three reads, its second frame rejected or not,
\* and its loop has returned; camera 2 is still backing off after a failed
\* read.
C22_Witness ==
    /\ Stopped(3)
    /\ capture[3].pc = "stopped"
    /\ capture[3].frame_count = 3
    /\ ~Stopped(2)
    /\ capture[2].pc = "backoff"

\* C23: the capture loop of a camera returns only from its loop condition,
\* and only with the camera's flag cleared; after the back-off that follows
\* a failed read and after the sleep that follows a submission, accepted or
\* rejected, it is back at its loop condition with its count unchanged.
C23_ExitsOnlyWhenStopped ==
    [][ \A c \in Cameras :
            /\ (capture'[c].pc = "stopped" /\ capture[c].pc # "stopped")
               => (Stopped(c) /\ capture[c].pc = "loop")
            /\ capture[c].pc = "stopped" => capture'[c] = capture[c]
            /\ (capture[c].pc \in {"backoff", "yield"} /\ capture'[c] # capture[c])
               => /\ capture'[c].pc = "loop"
                  /\ capture'[c].frame_count = capture[c].frame_count
      ]_vars

\* Camera 3, alone on worker 1, had its third submission rejected by the
\* full queue and then failed a read: it is backing off, still active.
C23_Witness ==
    /\ num_workers = 2
    /\ LoopCondition(3)
    /\ capture[3] = [pc |-> "backoff", frame_count |-> 3 * FRAME_SKIP,
                     submitted |-> "unset"]
    /\ Frames(input_queues[1]) = <<FRAME_SKIP, 2 * FRAME_SKIP>>

\* C30: every iteration of the capture loop that reads the stream ends in a
\* suspension (the back-off after a failed read, the short sleep after a
\* decimated, a submitted or a dropped frame), so that no two reads follow
\* each other without one.
C30_Original ==
    [][ \A c \in Cameras : Reads(c) => capture'[c].pc \in {"backoff", "yield"} ]_vars

\* C24: shutdown forcefully terminates only a worker that is still busy when
\* its grace period ends: a worker that is idle, its queue empty, has left
\* its loop by itself and is not terminated.
C24_Original ==
    [][ \A w \in Workers :
            (/\ worker[w].pc = "get"
             /\ input_queues[w] = <<>>)
            => worker'[w].pc # "terminated" ]_vars

\* Worker w's model load has failed.
LoadFailed(w) == LoadError(w) \in error_log

\* C25: a worker whose models fail to load ends at once and stays ended: it
\* never takes a task from its queue, never creates a tracker or a history,
\* never puts a result, and nothing starts it again; whatever is submitted
\* to it stays in its queue.  The steps of the other workers do not depend
\* on it.
C25_StartupFault ==
    [][ \A w \in Workers :
            /\ LoadFailed(w)' =>
                   /\ worker'[w] = [Idle EXCEPT !.pc = "exited"]
                   /\ trackers'[w] = {} /\ tracker_history'[w] = <<>>
                   /\ \A i \in 1 .. Len(output_queue') : output_queue'[i].worker_id # w
            /\ LoadFailed(w) =>
                   /\ Len(input_queues'[w]) >= Len(input_queues[w])
                   /\ SubSeq(input_queues'[w], 1, Len(input_queues[w])) = input_queues[w]
            /\ (worker[w].pc = "load" /\ worker'[w].pc = "exited") => LoadFailed(w)'
      ]_vars

\* Worker 0 failed to load and camera 2's two frames wait in its queue;
\* worker 1 has processed both frames of camera 3.
C25_Witness ==
    /\ num_workers = 2
    /\ LoadFailed(0)
    /\ worker[0].pc = "exited"
    /\ Frames(input_queues[0]) = <<FRAME_SKIP, 2 * FRAME_SKIP>>
    /\ ~LoadFailed(1)
    /\ Len(output_queue) = 2
    /\ \A i \in 1 .. 2 : output_queue[i].worker_id = 1 /\ output_queue[i].camera_id = 3
    /\ shutdown.pc = "none"

\* C26: an iteration of gen_frames(c) that finds no entry for c in the
\* live-frame cache yields nothing, and one that finds an entry yields the
\* multipart chunk wrapping that entry as it is at that moment; after each
\* read of the cache the generator sleeps before it reads again, and it has
\* no step that ends it.
C26_GenFrames ==
    [][ \A c \in Cameras :
            gen_frames'[c] # gen_frames[c] =>
                /\ gen_frames[c].pc = "read" =>
                       /\ gen_frames'[c].pc = "sleep"
                       /\ c \notin DOMAIN frames => gen_frames'[c].chunk = NoChunk
                       /\ c \in DOMAIN frames =>
                              gen_frames'[c].chunk =
                                  [boundary |-> "--frame", content_type |-> "image/jpeg",
                                   body |-> frames[c]]
                /\ gen_frames[c].pc = "sleep" =>
                       /\ gen_frames'[c].pc = "read"
                       /\ gen_frames'[c].chunk = gen_frames[c].chunk
                /\ gen_frames[c].pc = "idle" =>
                       gen_frames'[c] = [pc |-> "read", chunk |-> NoChunk]
      ]_vars

\* The stream of camera 3 yielded the first frame, then the second once the
\* sink had cached it; the stream of camera 2, for which no frame ever
\* arrived, has read the cache and yielded nothing.
C26_Witness ==
    /\ frames = (3 :> 2 * FRAME_SKIP)
    /\ gen_frames[3] = [pc |-> "sleep", chunk |-> Chunk(2 * FRAME_SKIP)]
    /\ gen_frames[2] = [pc |-> "sleep", chunk |-> NoChunk]

\* Worker w has just had the text of a plate image recognised.
Recognised(w) == worker[w].pc = "reconcile"
\* What the engines read in that image, and what EasyOCR read with a
\* confidence that passes the threshold.
RoiOf(w) == Head(worker[w].license_plates).roi
Read(w, text) ==
    /\ RoiOf(w).easyocr.text = text
    /\ RoiOf(w).easyocr.confidence >= OCR_CONFIDENCE_THRESHOLD
AllDigits(text) == \A i \in 1 .. Len(text) : text[i] \in Digit

\* C27 as stated: the all-digit text "123456789012", cleaned and validated,
\* yields itself, and "O12345678I" yields "0123456781".
C27_Original ==
    \A w \in Workers :
        Recognised(w) =>
            /\ Read(w, Digits12) => worker[w].ocr_result.text = Digits12
            /\ Read(w, Letters10) =>
                   worker[w].ocr_result.text
                       = <<"0", "1", "2", "3", "4", "5", "6", "7", "8", "1">>

\* C27, amended: an all-digit text of ten or eleven digits, cleaned and
\* validated, yields itself; the twelve digits of "123456789012" are left as
\* they are by the cleaning and fail the validation, so that no text is
\* returned for them; "O12345678I" yields "0123456781".  Whatever text is
\* returned from an EasyOCR reading is ten or eleven digits.
C27_CleanValidate ==
    \A w \in Workers :
        Recognised(w) =>
            /\ \A text \in {Digits10, Digits11} :
                   Read(w, text) => worker[w].ocr_result.text = text
            /\ Read(w, Digits12) =>
                   /\ clean_plate_text(Digits12) = Digits12
                   /\ worker[w].ocr_result.text = <<>>
                   /\ worker[w].ocr_result.method = "none"
            /\ Read(w, Letters10) =>
                   worker[w].ocr_result.text
                       = <<"0", "1", "2", "3", "4", "5", "6", "7", "8", "1">>
            /\ worker[w].ocr_result.method = "easyocr" =>
                   /\ AllDigits(worker[w].ocr_result.text)
                   /\ Len(worker[w].ocr_result.text) \in 10 .. 11
                   /\ worker[w].ocr_result.raw_text = RoiOf(w).easyocr.text
                   /\ AllDigits(worker[w].ocr_result.raw_text)
                          => worker[w].ocr_result.text = worker[w].ocr_result.raw_text

\* The first frame's plate read "O12345678I" and its detection carries
\* "0123456781"; the second frame's plate reads "123456789012", for which no
\* text is returned.
C27_Witness ==
    /\ Len(output_queue) = 1
    /\ Len(output_queue[1].detections) = 1
    /\ output_queue[1].detections[1].ocr.raw_text = Letters10
    /\ output_queue[1].detections[1].ocr.text
           = <<"0", "1", "2", "3", "4", "5", "6", "7", "8", "1">>
    /\ Recognised(0)
    /\ Read(0, Digits12)
    /\ worker[0].ocr_result.method = "none"

\* C28: a reconciliation changes only rows created by results of the same
\* camera, and after it the history entry of the track, when there is one,
\* references a row of the camera the result came from: two cameras whose
\* trackers issue the same track id have separate rows and entries.
C28_Original ==
    [][ (SinkStep /\ AtHand.ocr.text # "") =>
            /\ \A r \in 1 .. Len(db) :
                   db'[r] # db[r] => db[r].camera_id = sink.camera_id
            /\ AtHand.id \in Keys(history') =>
                   db'[Get(history', AtHand.id).record].camera_id = sink.camera_id
      ]_vars

\* C29: the text held by each entry of the sink's history is the text of
\* the row the entry references, storage errors or not.
C29_Original ==
    \A i \in 1 .. Len(history) :
        /\ history[i].record \in 1 .. Len(db)
        /\ db[history[i].record].detected_plate_text = history[i].text

\* C31: every reading recognize_plate_text returns either has a non-empty
\* text that passes the plate-format validation together with a confidence
\* at or above the OCR confidence floor, or has empty text and confidence 0.
C31_Original ==
    \A w \in Workers :
        Recognised(w) =>
            \/ /\ worker[w].ocr_result.text # <<>>
               /\ validate_plate_text(worker[w].ocr_result.text)
               /\ worker[w].ocr_result.confidence >= OCR_CONFIDENCE_THRESHOLD
            \/ /\ worker[w].ocr_result.text = <<>>
               /\ worker[w].ocr_result.confidence = 0

\* Worker w has just had the plates of its task's frame detected and
\* tracked: license_plates is what detect_license_plates returned.
Detected(w) == worker[w].pc = "plate" /\ worker[w].detections = <<>>
\* The raw detections of that frame, and those that overlap box
RawOf(w) == detection_model(worker[w].task.frame)
Overlapping(w, box) ==
    {i \in 1 .. Len(RawOf(w)) : Intersection(box, RawOf(w)[i]) > 0}

\* C32: the confidence attached to a tracked box is the confidence of the
\* raw detection of the same frame that overlaps it best, and it is 0 when
\* no raw detection of the frame overlaps the tracked box at all.
C32_Original ==
    \A w \in Workers :
        Detected(w) =>
            \A k \in 1 .. Len(worker[w].license_plates) :
                LET plate == worker[w].license_plates[k]
                    raw == RawOf(w)
                IN  IF Overlapping(w, plate.bbox) = {}
                    THEN plate.confidence = 0
                    ELSE \E i \in Overlapping(w, plate.bbox) :
                             /\ plate.confidence = raw[i].confidence
                             /\ \A j \in 1 .. Len(raw) :
                                    ~Greater(Iou(plate.bbox, raw[j]),
                                             Iou(plate.bbox, raw[i]))

\* C33: eviction from a worker's per-camera history removes the
\* least-recently-touched entry, a touch being any read or write of the track
\* id during reconciliation.  A reconciliation of a track that is in the
\* history moves its entry to the end, whether the reading is stored or the
\* previous one is kept (a read only), and leaves the other entries in their
\* order; a reconciliation of a track that is not in a full history removes
\* the first entry.  With a bound of 2, after inserting tracks 1 and 2, a
\* lower-confidence reading of track 1 gives <<2, 1>> and inserting track 3
\* then gives <<1, 3>>: the evicted entry is track 2.
C33_LeastRecentlyTouched ==
    [][ \A w \in Workers :
            ReconcileStep(w) =>
                LET id == StepId(w)
                    before == HistoryBefore(w)
                    after == HistoryAfter(w)
                IN  /\ id \in Keys(before) =>
                           /\ Ids(after) = Append(Ids(Without(before, id)), id)
                           /\ worker[w].ocr_result.confidence < Get(before, id).confidence
                                  => after = Append(Without(before, id), Get(before, id))
                    /\ (id \notin Keys(before) /\ Len(before) = HISTORY_SIZE_THRESHOLD)
                           => /\ Head(before).id \notin Keys(after)
                              /\ Ids(after) = Append(Tail(Ids(before)), id)
                    /\ (HISTORY_SIZE_THRESHOLD = 2 /\ Ids(before) = <<1, 2>> /\ id = 1)
                           => Ids(after) = <<2, 1>>
                    /\ (HISTORY_SIZE_THRESHOLD = 2 /\ Ids(before) = <<2, 1>> /\ id = 3)
                           => Ids(after) = <<1, 3>>
      ]_vars

\* The first frame inserted tracks 1 and 2, track 1 with the reading "B" of
\* confidence 4; the second frame showed track 1 again, for which the kept
\* reading "B" was emitted, and then track 3, whose insertion evicted track
\* 2: the history holds tracks 1 and 3 in that order.
C33_Witness ==
    \E w \in Workers :
        /\ HISTORY_SIZE_THRESHOLD = 2
        /\ Len(output_queue) = 1
        /\ output_queue[1].annotated_frame = FRAME_SKIP
        /\ Ids(output_queue[1].detections) = <<1, 2>>
        /\ output_queue[1].detections[1].ocr = [text |-> "B", confidence |-> 4]
        /\ worker[w].task.frame = 2 * FRAME_SKIP
        /\ Ids(worker[w].detections) = <<1, 3>>
        /\ worker[w].detections[1].ocr = [text |-> "B", confidence |-> 4]
        /\ 3 \in DOMAIN tracker_history[w]
        /\ Ids(tracker_history[w][3]) = <<1, 3>>
        /\ tracker_history[w][3][1].ocr = [text |-> "B", confidence |-> 4]

\* C34: over any sequence of results and idle maintenance passes in the sink,
\* at most one persisted record is ever created for a given track id; a
\* track whose history entry was evicted and that is seen again with the
\* same text does not get a second record.  The rows carry no track id: with
\* the tracks of TrackIds on one camera, all read with the same text, there
\* are then never more rows than tracks.
C34_Original == Len(db) <= Cardinality(TrackIds)

\* C35: for every history bound of at least 1, right after a worker
\* reconciles track t its per-camera history contains t as the
\* most-recently-touched entry: inserting a new track never evicts that same
\* track, and the reconciliation step raises no error.  The bounds are those
\* of 1 .. MaxThreshold that the history at hand respects; the worker's own
\* step is the reconciliation for HISTORY_SIZE_THRESHOLD.
C35_TouchedLast ==
    [][ \A w \in Workers :
            ReconcileStep(w) =>
                LET id == StepId(w)
                    before == HistoryBefore(w)
                    after == HistoryAfter(w)
                IN  /\ \A threshold \in 1 .. MaxThreshold :
                           Len(before) <= threshold =>
                               LET r == ReconcileBounded(threshold, before, id,
                                                         worker[w].ocr_result)
                               IN  /\ ~r.raises
                                   /\ r.history # <<>>
                                   /\ r.history[Len(r.history)].id = id
                                   /\ Len(r.history) <= threshold
                                   /\ id \notin Keys(before) =>
                                          r.history[Len(r.history)].ocr
                                              = worker[w].ocr_result
                    /\ HISTORY_SIZE_THRESHOLD \in 1 .. MaxThreshold
                    /\ after = ReconcileBounded(HISTORY_SIZE_THRESHOLD, before, id,
                                                worker[w].ocr_result).history
                    /\ after # <<>>
                    /\ after[Len(after)].id = id
                    /\ ~Reconcile(before, id, worker[w].ocr_result).raises
      ]_vars

\* Track 3 has just been inserted into the full history of tracks 1 and 2,
\* of which it is now the last entry, and its detection was appended: the
\* step raised nothing.
C35_Witness ==
    \E w \in Workers :
        /\ worker[w].pc = "plate"
        /\ worker[w].detections # <<>>
        /\ worker[w].detections[Len(worker[w].detections)].id = 3
        /\ Len(output_queue) = 1
        /\ Ids(output_queue[1].detections) = <<1, 2>>
        /\ 3 \in DOMAIN tracker_history[w]
        /\ Len(tracker_history[w][3]) = HISTORY_SIZE_THRESHOLD
        /\ tracker_history[w][3][Len(tracker_history[w][3])].id = 3
        /\ worker[w].task \notin error_log

\* C36: once stop_camera(c) has returned, start_camera(c) not being called
\* again, the capture loop of camera c submits no further frame: no step
\* taken with the flag cleared reads the stream of c, calls submit_frame for
\* c or adds a task of c to a queue, and the flag stays cleared; every
\* submission for c precedes the stop.
C36_NoSubmitAfterStop ==
    [][ \A c \in Cameras :
            /\ Stopped(c) =>
                   /\ Stopped(c)'
                   /\ ~Submits(c)
                   /\ capture'[c].frame_count = capture[c].frame_count
                   /\ \A w \in Workers :
                          TasksOf(input_queues'[w], c) = TasksOf(input_queues[w], c)
            /\ Submits(c) => IsActive(c)
      ]_vars

\* Camera 3 was stopped during the sleep that followed its third read, with
\* its frame 2 queued, and its loop has returned without a fourth read, which
\* would have been submitted; camera 2 has gone on to its fourth read.
C36_Witness ==
    /\ Stopped(3)
    /\ capture[3].pc = "stopped"
    /\ capture[3].frame_count = 2 * FRAME_SKIP - 1
    /\ Frames(TasksOf(input_queues[WorkerOf(3)], 3)) = <<FRAME_SKIP>>
    /\ IsActive(2)
    /\ capture[2].frame_count = 2 * FRAME_SKIP
    /\ Frames(TasksOf(input_queues[WorkerOf(2)], 2)) = <<FRAME_SKIP, 2 * FRAME_SKIP>>

\* Frame f of camera 3 is a task waiting in an input queue, was abandoned by
\* a caught exception, is a result on the output queue, is the result the
\* sink has just taken.
Queued(f) ==
    \E w \in Workers : \E i \in 1 .. Len(input_queues[w]) :
        input_queues[w][i].camera_id = 3 /\ input_queues[w][i].frame = f
Abandoned(f) == \E task \in error_log : task.camera_id = 3 /\ task.frame = f
Emitted(f) ==
    \E i \in 1 .. Len(output_queue) :
        output_queue[i].camera_id = 3 /\ output_queue[i].annotated_frame = f
Consumed(f) == 3 \in DOMAIN frames /\ frames[3] = f /\ ~Emitted(f)

\* C37: under fair scheduling, with its worker and the sink running, every
\* frame accepted by submit_frame is eventually dequeued and either abandoned
\* by a caught exception or turned into a result that the sink eventually
\* consumes; no accepted task stays in a queue forever.
C37_Delivered ==
    \A f \in 1 .. FlowReads :
        /\ Queued(f) ~> (Abandoned(f) \/ Consumed(f))
        /\ Queued(f) ~> ~Queued(f)
        /\ Emitted(f) ~> Consumed(f)

\* The first accepted frame was abandoned by an exception, the second has
\* been consumed by the sink, and no task or result is left in a queue.
C37_Witness ==
    /\ Abandoned(FRAME_SKIP)
    /\ ~Abandoned(2 * FRAME_SKIP)
    /\ Consumed(2 * FRAME_SKIP)
    /\ \A w \in Workers : input_queues[w] = <<>>
    /\ output_queue = <<>>

\* C38: CameraManager.shutdown sets the active flag of every camera to false
\* and returns only after every capture task has exited, also when a capture
\* task ended with an exception; afterwards no capture task is running and
\* the manager's task list is empty.
C38_Shutdown ==
    /\ manager.pc # "none" =>
           \A c \in DOMAIN camera_pool : ~camera_pool[c].active
    /\ manager.pc = "gather" => manager.tasks = DOMAIN camera_pool
    /\ manager.pc = "returned" =>
           /\ manager.tasks = {}
           /\ \A c \in Cameras : capture[c].pc \in {"idle", "stopped", "raised"}
           /\ \A c \in DOMAIN camera_pool : done(c)

\* shutdown has returned with an empty task list: the task of camera 2 had
\* ended with an exception after a read, and that of camera 3 has left its
\* loop after three reads, on finding its flag cleared.
C38_Witness ==
    /\ manager = [tasks |-> {}, pc |-> "returned"]
    /\ DOMAIN camera_pool = {2, 3}
    /\ capture[2].pc = "raised"
    /\ capture[2].frame_count = 1
    /\ capture[3].pc = "stopped"
    /\ capture[3].frame_count = 3

====
